---- MODULE Spec2Model ----
(***************************************************************************)
(* Inbox Concierge: the classification route (POST /api/core/classify),    *)
(* the sync reconciler (prepareSyncActions, processEmailSync, InboxPage)   *)
(* and the client components that select and persist classifications      *)
(* (EmailClassifierButton, InitialClassifier).                             *)
(***************************************************************************)
EXTENDS Integers, Sequences, FiniteSets, TLC

(***************************************************************************)
(* Bounds of the model and constants of the program.                       *)
(***************************************************************************)
\* Largest number of emails in a modelled classify request.
MaxEmails == 3
\* Redirects a browser follows within one navigation before it gives up.
MaxRedirects == 3
\* Largest number of emails in a request of the rate-limit specification.
MaxRateEmails == 7
\* Batch size of the route, scaled down from the program's 10.
BATCH_SIZE == 2
\* Batches started per window, scaled down from the program's 4.
RATE_PER_SECOND == 2
\* Length of the admission window in ms (the literal 1000 of the route).
WINDOW_MS == 1000
RATE_LIMIT_DELAY_BUFFER_MS == 100
\* Longest batch of the validator specification.
MaxValBatch == 2
\* A slow synchronous start of a batch, in ms.
SlowStartMs == 1000
\* Largest number of threads in a fetched list.
MaxFetch == 2
\* Largest array and largest size chunkArray is applied to on its own.
MaxChunkLen == 4
MaxChunkSize == 5
\* Largest number of emails the page hands to its client components.
MaxStored == 2
\* Largest number of classify requests the client components send.
MaxRequests == 2
\* Submissions of BucketManager's form that reach the table.
MaxSubmits == 2
\* SpecTuning: emails of a request, and the largest batch size and rate.
MaxTuneEmails == 4
MaxBatchSize == 3
MaxRate == 3

(***************************************************************************)
(* JavaScript values as the route sees them in a model response.           *)
(***************************************************************************)
JSString(s) == [type |-> "string", val |-> s]
NotAString == [type |-> "undefined", val |-> ""]
IsString(v) == v.type = "string"
\* An element of the response array: an object with two fields, or null.
Item(tid, bname) == [isObject |-> TRUE, threadId |-> tid, bucketName |-> bname]
NullItem == [isObject |-> FALSE, threadId |-> NotAString, bucketName |-> NotAString]

\* What generateObject can produce for one batch.
ApiError == [kind |-> "apierror", items |-> <<>>]
NoObject == [kind |-> "noobject", items |-> <<>>]
NonArray == [kind |-> "nonarray", items |-> <<>>]
ArrayOf(items) == [kind |-> "array", items |-> items]

EmptyMap == [x \in {} |-> ""]
Range(s) == {s[k] : k \in 1..Len(s)}
Max2(a, b) == IF a >= b THEN a ELSE b
Min2(a, b) == IF a <= b THEN a ELSE b

(***************************************************************************)
(* chunkArray: slices of `size` elements, the last one shorter.            *)
(***************************************************************************)
RECURSIVE chunkFrom(_, _, _)
chunkFrom(array, size, start) ==
    IF start > Len(array) THEN <<>>
    ELSE <<SubSeq(array, start, Min2(start + size - 1, Len(array)))>>
             \o chunkFrom(array, size, start + size)

chunkArrayDropsRemainder(array, size) ==
    [k \in 1..(Len(array) \div size) |->
        SubSeq(array, (k - 1) * size + 1, k * size)]

chunkArray(array, size) == chunkFrom(array, size, 1)

(***************************************************************************)
(* Static data prepared once per request.                                  *)
(***************************************************************************)
bucketNamesOnly(bkts) == [k \in 1..Len(bkts) |-> bkts[k].name]

\* new Map(buckets.map(b => [b.name, b.id])): a later bucket of the same
\* name replaces the earlier entry.
RECURSIVE bucketMapFrom(_, _)
bucketMapFrom(bkts, n) ==
    IF n = 0 THEN EmptyMap
    ELSE LET rest == bucketMapFrom(bkts, n - 1)
         IN  [nm \in DOMAIN rest \cup {bkts[n].name} |->
                 IF nm = bkts[n].name THEN bkts[n].id ELSE rest[nm]]

bucketNameToIdMapLookup(bkts) == bucketMapFrom(bkts, Len(bkts))

(***************************************************************************)
(* The strict validation block of processSingleBatch.                      *)
(***************************************************************************)
\* The duplicate scan: elements without a string threadId are skipped, the
\* scan stops at the first repeated id.
RECURSIVE dupScan(_, _, _)
dupScan(items, k, seen) ==
    IF k > Len(items) THEN [hasDuplicates |-> FALSE, resultThreadIds |-> seen]
    ELSE IF ~items[k].isObject \/ ~IsString(items[k].threadId)
         THEN dupScan(items, k + 1, seen)
    ELSE IF items[k].threadId.val \in seen
         THEN [hasDuplicates |-> TRUE, resultThreadIds |-> seen]
    ELSE dupScan(items, k + 1, seen \cup {items[k].threadId.val})

\* The first input id, in batch order, that the response does not hold.
firstMissing(batchThreadIds, resultThreadIds) ==
    LET miss == {k \in 1..Len(batchThreadIds) :
                    batchThreadIds[k] \notin resultThreadIds}
    IN  IF miss = {} THEN 0
        ELSE CHOOSE k \in miss : \A j \in miss : k <= j

\* The element loop: the first element of a wrong shape or with a bucket
\* name outside the supplied names ends the loop.
RECURSIVE elementScan(_, _, _)
elementScan(items, k, validBucketNamesSet) ==
    IF k > Len(items) THEN [rule |-> "ok", arg |-> ""]
    ELSE IF ~items[k].isObject \/ ~IsString(items[k].threadId)
            \/ ~IsString(items[k].bucketName)
         THEN [rule |-> "structure", arg |-> ""]
    ELSE IF items[k].bucketName.val \notin validBucketNamesSet
         THEN [rule |-> "invalid_bucket", arg |-> items[k].bucketName.val]
    ELSE elementScan(items, k + 1, validBucketNamesSet)

\* [rule |-> "ok"] when batchIsValid, else the validationError.
ValidationMissingIdSkipped(batchThreadIds, bkts, raw) ==
    IF raw.kind # "array" THEN [rule |-> "not_array", arg |-> ""]
    ELSE IF Len(raw.items) # Len(batchThreadIds) THEN [rule |-> "length", arg |-> ""]
    ELSE LET scan == dupScan(raw.items, 1, {})
         IN  IF scan.hasDuplicates THEN [rule |-> "duplicate", arg |-> ""]
             ELSE IF Cardinality(scan.resultThreadIds)
                        # Cardinality(Range(batchThreadIds))
                  THEN [rule |-> "count_mismatch", arg |-> ""]
             ELSE elementScan(raw.items, 1, Range(bucketNamesOnly(bkts)))

Validation(batchThreadIds, bkts, raw) ==
    IF raw.kind # "array" THEN [rule |-> "not_array", arg |-> ""]
    ELSE IF Len(raw.items) # Len(batchThreadIds) THEN [rule |-> "length", arg |-> ""]
    ELSE LET scan == dupScan(raw.items, 1, {})
         IN  IF scan.hasDuplicates THEN [rule |-> "duplicate", arg |-> ""]
             ELSE IF Cardinality(scan.resultThreadIds)
                        # Cardinality(Range(batchThreadIds))
                  THEN [rule |-> "count_mismatch", arg |-> ""]
             ELSE LET m == firstMissing(batchThreadIds, scan.resultThreadIds)
                  IN  IF m # 0 THEN [rule |-> "missing_id", arg |-> batchThreadIds[m]]
                      ELSE elementScan(raw.items, 1, Range(bucketNamesOnly(bkts)))

(***************************************************************************)
(* The translation of an accepted batch: rawResults.forEach with the       *)
(* truthiness test `if (bucketId)`; a name mapped to "" is skipped.        *)
(***************************************************************************)
\* A translation that keeps the bucket's name as the value.
RECURSIVE translateKeepingNames(_, _, _)
translateKeepingNames(items, n, lookup) ==
    IF n = 0 THEN EmptyMap
    ELSE LET rest == translateKeepingNames(items, n - 1, lookup)
             bucketName == items[n].bucketName.val
             threadId == items[n].threadId.val
             bucketId == IF bucketName \in DOMAIN lookup THEN lookup[bucketName] ELSE ""
         IN  IF bucketId # ""
             THEN [t \in DOMAIN rest \cup {threadId} |->
                      IF t = threadId THEN bucketName ELSE rest[t]]
             ELSE rest

RECURSIVE translateFrom(_, _, _)
translateFrom(items, n, lookup) ==
    IF n = 0 THEN EmptyMap
    ELSE LET rest == translateFrom(items, n - 1, lookup)
             bucketName == items[n].bucketName.val
             threadId == items[n].threadId.val
             bucketId == IF bucketName \in DOMAIN lookup THEN lookup[bucketName] ELSE ""
         IN  IF bucketId # ""
             THEN [t \in DOMAIN rest \cup {threadId} |->
                      IF t = threadId THEN bucketId ELSE rest[t]]
             ELSE rest

(***************************************************************************)
(* processSingleBatch: the result of one batch for one model outcome.      *)
(***************************************************************************)
\* A batch that reports a failure once per thread id instead of once.
processSingleBatchErrorPerEmail(batchThreadIds, bkts, raw) ==
    LET perEmail(error) ==
            [j \in 1..Len(batchThreadIds) |->
                [batchThreadIds |-> <<batchThreadIds[j]>>, error |-> error]]
    IN  IF Len(batchThreadIds) = 0 THEN [classifications |-> EmptyMap, errors |-> <<>>]
        ELSE IF raw.kind \in {"noobject", "apierror"}
             THEN [classifications |-> EmptyMap,
                   errors |-> perEmail([kind |-> raw.kind, rule |-> "", arg |-> ""])]
        ELSE LET v == Validation(batchThreadIds, bkts, raw)
             IN  IF v.rule = "ok"
                 THEN [classifications |->
                           translateFrom(raw.items, Len(raw.items),
                                         bucketNameToIdMapLookup(bkts)),
                       errors |-> <<>>]
                 ELSE [classifications |-> EmptyMap,
                       errors |-> perEmail([kind |-> "validation",
                                            rule |-> v.rule, arg |-> v.arg])]

processSingleBatch(batchThreadIds, bkts, raw) ==
    IF Len(batchThreadIds) = 0 THEN [classifications |-> EmptyMap, errors |-> <<>>]
    ELSE IF raw.kind = "noobject"
         THEN [classifications |-> EmptyMap,
               errors |-> <<[batchThreadIds |-> batchThreadIds,
                             error |-> [kind |-> "noobject", rule |-> "", arg |-> ""]]>>]
    ELSE IF raw.kind = "apierror"
         THEN [classifications |-> EmptyMap,
               errors |-> <<[batchThreadIds |-> batchThreadIds,
                             error |-> [kind |-> "apierror", rule |-> "", arg |-> ""]]>>]
    ELSE LET v == Validation(batchThreadIds, bkts, raw)
         IN  IF v.rule = "ok"
             THEN [classifications |->
                       translateFrom(raw.items, Len(raw.items),
                                     bucketNameToIdMapLookup(bkts)),
                   errors |-> <<>>]
             ELSE [classifications |-> EmptyMap,
                   errors |-> <<[batchThreadIds |-> batchThreadIds,
                                 error |-> [kind |-> "validation",
                                            rule |-> v.rule, arg |-> v.arg]]>>]

(***************************************************************************)
(* The sequential merge after Promise.allSettled (results.forEach).        *)
(***************************************************************************)
\* Object.assign(target, source): the source's entries replace the target's.
objectAssign(target, source) ==
    [t \in DOMAIN target \cup DOMAIN source |->
        IF t \in DOMAIN source THEN source[t] ELSE target[t]]

RECURSIVE mergeAbortOnError(_, _, _)
mergeAbortOnError(results, chunks, n) ==
    IF n = 0 THEN [classifications |-> EmptyMap, errors |-> <<>>]
    ELSE LET acc == mergeAbortOnError(results, chunks, n - 1)
         IN  IF results[n].status = "fulfilled" /\ results[n].value.errors = <<>>
             THEN [classifications |->
                       IF acc.errors = <<>>
                       THEN objectAssign(acc.classifications,
                                         results[n].value.classifications)
                       ELSE EmptyMap,
                   errors |-> acc.errors]
             ELSE [classifications |-> EmptyMap,
                   errors |-> acc.errors \o
                       (IF results[n].status = "fulfilled"
                        THEN results[n].value.errors
                        ELSE <<[batchThreadIds |-> chunks[n],
                                error |-> [kind |-> "rejected", rule |-> "",
                                           arg |-> ""]]>>)]

RECURSIVE mergeResults(_, _, _)
mergeResults(results, chunks, n) ==
    IF n = 0 THEN [classifications |-> EmptyMap, errors |-> <<>>]
    ELSE LET acc == mergeResults(results, chunks, n - 1)
         IN  IF results[n].status = "fulfilled"
             THEN [classifications |->
                       objectAssign(acc.classifications,
                                    results[n].value.classifications),
                   errors |-> acc.errors \o results[n].value.errors]
             ELSE [classifications |-> acc.classifications,
                   errors |-> acc.errors \o
                       <<[batchThreadIds |-> chunks[n],
                          error |-> [kind |-> "rejected", rule |-> "", arg |-> ""]]>>]

(***************************************************************************)
(* State.                                                                  *)
(***************************************************************************)
VARIABLES
    \* --- one request to POST /api/core/classify (parallel route) ---
    emails,            \* thread ids of the request's emails, in order
    buckets,           \* the request's buckets: records [id, name]
    apiKeySet,         \* process.env.OPENROUTER_API_KEY is set
    bodyParses,        \* request.json() yields an object of the schema's shape
    batchSize,         \* the value of BATCH_SIZE the route is built with
    ratePerSecond,     \* the value of RATE_PER_SECOND the route is built with
    assignment,        \* SpecTuning: the bucket name the model gives each thread id
    pc,                \* "request" | "loop" | "delay" | "await" | "done" | "off"
    emailChunks,       \* chunkArray(emails, batchSize)
    i,                 \* the dispatch loop's index (0-based, as in the code)
    requestCounter,
    windowStartTime,
    now,               \* Date.now(), in ms since the request arrived
    wakeAt,            \* when the pending setTimeout fires
    startTimes,        \* startTimes[k]: when processSingleBatch(k) was called
    batchStatus,       \* per batch: "pending" | "inflight" | "settled"
    batchOut,          \* per batch: the settled promise
    settleTimes,       \* per batch: when its promise settled (-1: not yet)
    modelCalls,        \* the generateObject calls so far: batch indices, in call order
    settleOrder,       \* the batch indices in the order their promises settled
    cancelled,         \* the caller has aborted the request (request.signal)
    response,          \* the NextResponse of the run
    \* --- the sequential route given the same request and model outcomes ---
    modelOutcomes,     \* per batch: what generateObject produces for it
    seqPc,             \* "off" | "request" | "batch" | "delay" | "done"
    seqChunks,         \* its emailChunks
    seqIndex,          \* batches the for loop has finished
    seqClassifications, seqErrors,   \* its accumulators
    seqResponse,       \* its NextResponse
    \* --- the validation block applied to one batch and one model output ---
    vBatch, vBuckets, vRaw, vOut,
    \* --- chunkArray applied to one array and one size ---
    cArray, cSize, cOut,
    \* --- the middleware in front of one browser's navigations ---
    mwSession,         \* supabase.auth.getSession() yields a session
    mwPc,              \* "off" | "idle" | "request" | "responded"
    mwRequest,         \* request.nextUrl of the request in flight: [pathname, search]
    mwResponse,        \* what the request is answered with
    mwSessionSeen,     \* the session state the middleware last read
    mwHops,            \* redirects the browser has followed in this navigation
    \* --- the emails table and the sync runs of one user ---
    store,             \* stored emails: thread id -> [bucket_id, subject, email_date]
    inbox,             \* what fetchGmailEmails returns: the remote thread list
    syncKind,          \* per sync run: "page" (InboxPage) | "processor"
    syncPc,            \* per sync run: "idle" | "fetched" | "upserting" | "done"
    gmail,             \* per sync run: gmailApiEmails
    existing,          \* per sync run: ids the select found stored
    prepared,          \* per sync run: the result of prepareSyncActions
    syncWarnings,      \* per sync run: pageError / warnings
    \* --- the client components of the inbox page ---
    allFetchedEmails,  \* props: the page's emails, records [id, bucket_id]
    availableBuckets,  \* props: the page's buckets, records [id, name]
    apiRequests,       \* the POSTs to /api/core/classify sent so far
    isDialogOpen, selectedBucketIds, isLoading, isPending, statusMessage,
    dlgPc,             \* handleClassification: "idle" | "awaitApi" | "awaitUpsert"
    dlgRun,            \* the closure of the run in flight: [emails, errors, dbUpdates]
    closeTimer,        \* the 2 s timer that closes the dialog is armed
    icPc,              \* classifyInitialEmails: "mount" | "awaitApi" | "awaitUpsert" | "done"
    icRun,             \* the closure of the run in flight: [emails, errors, dbUpdates]
    icLoading, icStatus,
    icTimer,           \* the 3 s timer that clears icLoading is armed
    icRefresh,         \* InitialClassifier's router.refresh() is pending
    \* --- the buckets table of one user, page loads and BucketManager ---
    bucketTable,       \* rows of the table in insertion order: the name of row id k
    loadPc,            \* per page load: "off" | "select" | "insert" | "done" | "failed"
    loadBuckets,       \* per page load: fetchedBuckets, records [id, name]
    bmPc,              \* handleFormSubmit: "off" | "idle" | "awaitInsert" | "awaitUpdate"
    bmBuckets,         \* BucketManager's buckets state, records [id, name]
    editingBucketId,   \* id of the bucket being edited, 0 for null
    isCreating,        \* the create form is open
    bmLoading,         \* BucketManager's isLoading
    bmError,           \* BucketManager's error
    bmData,            \* dataToUpsert.name of the submission in flight
    bmTarget,          \* currentBucketId captured by the submission in flight
    bmSubmits          \* submissions of the bucket form sent to the table so far

requestVars == <<emails, buckets, apiKeySet, bodyParses, batchSize, ratePerSecond,
                 assignment>>
runVars == <<requestVars, pc, emailChunks, i, requestCounter,
             windowStartTime, now, wakeAt, startTimes, batchStatus, batchOut,
             settleTimes, modelCalls, settleOrder, cancelled, response>>
seqVars == <<modelOutcomes, seqPc, seqChunks, seqIndex, seqClassifications,
            seqErrors, seqResponse>>
valVars == <<vBatch, vBuckets, vRaw, vOut>>
chunkVars == <<cArray, cSize, cOut>>
mwVars == <<mwSession, mwPc, mwRequest, mwResponse, mwSessionSeen, mwHops>>
bucketVars == <<bucketTable, loadPc, loadBuckets, bmPc, bmBuckets, editingBucketId,
                isCreating, bmLoading, bmError, bmData, bmTarget, bmSubmits>>
syncVars == <<store, inbox, syncKind, syncPc, gmail, existing, prepared, syncWarnings>>
propVars == <<allFetchedEmails, availableBuckets>>
dialogVars == <<isDialogOpen, selectedBucketIds, isLoading, isPending, statusMessage,
                dlgPc, dlgRun, closeTimer>>
icVars == <<icPc, icRun, icLoading, icStatus, icTimer, icRefresh>>
clientVars == <<propVars, apiRequests, dialogVars, icVars>>
nonRunVars == <<valVars, seqVars, chunkVars, mwVars, bucketVars, syncVars, clientVars>>
vars == <<runVars, valVars, seqVars, chunkVars, mwVars, bucketVars, syncVars, clientVars>>

NoResponse == [status |-> 0, classifications |-> EmptyMap, errors |-> <<>>]
NoResult == [status |-> "none",
             value |-> [classifications |-> EmptyMap, errors |-> <<>>]]
NoOutcome == [valid |-> FALSE, rule |-> "none", arg |-> "", classifications |-> EmptyMap]

(***************************************************************************)
(* Inputs.                                                                 *)
(***************************************************************************)
TidNames == <<"t1", "t2", "t3", "t4", "t5", "t6", "t7", "t8", "t9">>
Tid(n) == TidNames[n]
ForeignId == "tX"
InvalidBucketName == "Nope"
B(id, name) == [id |-> id, name |-> name]

\* Lists of n thread ids in which a new id is always the next unused one:
\* every pattern of repetition once.
CanonLists(n) ==
    {[k \in 1..n |-> Tid(f[k])] : f \in
        {g \in [1..n -> 1..n] :
            \A k \in 1..n : g[k] <= 1 + Cardinality({g[j] : j \in 1..(k - 1)})
                            /\ (k = 1 => g[k] = 1)
                            /\ \A m \in 1..(g[k] - 1) : \E j \in 1..(k - 1) : g[j] = m}}

DistinctList(n) == [k \in 1..n |-> Tid(k)]

\* Bucket lists that pass classifyRequestSchema: id and name are any strings.
BucketLists ==
    { <<B("b1", "Work")>>,
      <<B("", "Work")>>,
      <<B("b1", "Work"), B("b2", "Personal")>>,
      <<B("b1", "Work"), B("", "Personal")>>,
      <<B("b1", "Work"), B("b2", "Work")>> }

RunItems(batchThreadIds, bkts) ==
    {Item(JSString(t), JSString(n)) :
        t \in Range(batchThreadIds) \cup {ForeignId},
        n \in Range(bucketNamesOnly(bkts)) \cup {InvalidBucketName}}

\* Model outcomes of one batch in a run: a thrown error, no object, a
\* non-array, an empty array, and every array of the batch's length.
RunOutcomes(batchThreadIds, bkts) ==
    {ApiError, NoObject, NonArray, ArrayOf(<<>>)}
    \cup {ArrayOf(s) : s \in [1..Len(batchThreadIds) -> RunItems(batchThreadIds, bkts)]}

\* A well-formed answer: every id once, in order, with the first bucket.
GoodAnswer(batchThreadIds, bkts) ==
    ArrayOf([k \in 1..Len(batchThreadIds) |->
                Item(JSString(batchThreadIds[k]), JSString(bkts[1].name))])

(***************************************************************************)
(* The emails table and prepareSyncActions.                                *)
(***************************************************************************)
\* bucket_id = null / email_date = null.
Null == "<null>"
SyncProcs == {"p1", "p2"}
EmptyStore == [t \in {} |-> [bucket_id |-> Null, subject |-> "", email_date |-> Null]]
NoPrepared == [threw |-> FALSE, emailsToUpsert |-> <<>>,
               existingGmailThreadIdsInLatestFetch |-> <<>>,
               allLatestGmailThreadIds |-> <<>>]

SyncIdle ==
    /\ store = EmptyStore /\ inbox = <<>>
    /\ syncKind = [p \in SyncProcs |-> "page"]
    /\ syncPc = [p \in SyncProcs |-> "off"]
    /\ gmail = [p \in SyncProcs |-> <<>>]
    /\ existing = [p \in SyncProcs |-> {}]
    /\ prepared = [p \in SyncProcs |-> NoPrepared]
    /\ syncWarnings = [p \in SyncProcs |-> <<>>]

NoRun == [emails |-> <<>>, errors |-> FALSE, dbUpdates |-> EmptyMap]

ClientIdle ==
    /\ allFetchedEmails = <<>> /\ availableBuckets = <<>> /\ apiRequests = <<>>
    /\ isDialogOpen = FALSE /\ selectedBucketIds = {} /\ isLoading = FALSE
    /\ isPending = FALSE /\ statusMessage = Null
    /\ dlgPc = "off" /\ dlgRun = NoRun /\ closeTimer = FALSE
    /\ icPc = "off" /\ icRun = NoRun /\ icLoading = FALSE /\ icStatus = Null
    /\ icTimer = FALSE /\ icRefresh = FALSE

\* Date header values: none, one that Date parses, one that it does not.
GoodDate == "Mon, 1 Jan 2024 10:00:00 GMT"
BadDate == "not a date"
\* new Date(d).toISOString(): a RangeError for a date that does not parse.
DateParses(d) == d = GoodDate
toISOString(d) == "2024-01-01T10:00:00.000Z"

G(t, s, d) == [threadId |-> t, subject |-> s, date |-> d]

\* The loop of prepareSyncActions over the first n fetched entries.
RECURSIVE prepareFrom(_, _, _)
prepareFrom(gmailEmails, n, supabaseThreadIds) ==
    IF n = 0 THEN NoPrepared
    ELSE LET acc == prepareFrom(gmailEmails, n - 1, supabaseThreadIds)
             gmailEmail == gmailEmails[n]
         IN  IF acc.threw THEN acc
             ELSE IF gmailEmail.threadId \notin supabaseThreadIds
             THEN IF gmailEmail.date # "" /\ ~DateParses(gmailEmail.date)
                  THEN [acc EXCEPT !.threw = TRUE]
                  ELSE [acc EXCEPT !.emailsToUpsert = Append(@,
                           [id |-> gmailEmail.threadId,
                            bucket_id |-> Null,
                            subject |-> gmailEmail.subject,
                            email_date |-> IF gmailEmail.date # ""
                                           THEN toISOString(gmailEmail.date)
                                           ELSE Null])]
             ELSE [acc EXCEPT !.existingGmailThreadIdsInLatestFetch =
                                   Append(@, gmailEmail.threadId)]

\* A throw leaves the caller without any of the three outputs.
prepareSyncActions(gmailEmails, supabaseThreadIds) ==
    LET r == prepareFrom(gmailEmails, Len(gmailEmails), supabaseThreadIds)
    IN  IF r.threw THEN [NoPrepared EXCEPT !.threw = TRUE]
        ELSE [r EXCEPT !.allLatestGmailThreadIds =
                  [k \in 1..Len(gmailEmails) |-> gmailEmails[k].threadId]]

\* supabase.from('emails').upsert(rows, {onConflict: 'id'}): every row
\* replaces the stored row of its id. One statement cannot write the same
\* id twice: the database rejects it and writes nothing.
HasDuplicateIds(rows) ==
    \E j \in 1..Len(rows) : \E k \in 1..Len(rows) : j # k /\ rows[j].id = rows[k].id

upsertEmails(st, rows) ==
    [t \in DOMAIN st \cup {rows[k].id : k \in 1..Len(rows)} |->
        IF \E k \in 1..Len(rows) : rows[k].id = t
        THEN LET r == rows[CHOOSE k \in 1..Len(rows) : rows[k].id = t]
             IN  [bucket_id |-> r.bucket_id, subject |-> r.subject,
                  email_date |-> r.email_date]
        ELSE st[t]]

\* An upsert that also clears the bucket of the stored rows it was not given.
upsertBucketIdsClearingRest(st, dbUpdates) ==
    [t \in DOMAIN st \cup DOMAIN dbUpdates |->
        IF t \in DOMAIN dbUpdates
        THEN IF t \in DOMAIN st
             THEN [st[t] EXCEPT !.bucket_id = dbUpdates[t]]
             ELSE [bucket_id |-> dbUpdates[t], subject |-> "", email_date |-> Null]
        ELSE [st[t] EXCEPT !.bucket_id = Null]]

\* The client's upsert of {id, bucket_id, user_id}: only bucket_id changes
\* on a stored row.
upsertBucketIds(st, dbUpdates) ==
    [t \in DOMAIN st \cup DOMAIN dbUpdates |->
        IF t \in DOMAIN dbUpdates
        THEN IF t \in DOMAIN st
             THEN [st[t] EXCEPT !.bucket_id = dbUpdates[t]]
             ELSE [bucket_id |-> dbUpdates[t], subject |-> "", email_date |-> Null]
        ELSE st[t]]

(***************************************************************************)
(* POST /api/core/classify, parallel route.                                *)
(***************************************************************************)
RunIdle ==
    /\ emailChunks = <<>> /\ i = 0 /\ requestCounter = 0 /\ windowStartTime = 0
    /\ now = 0 /\ wakeAt = 0 /\ startTimes = <<>> /\ batchStatus = <<>>
    /\ batchOut = <<>> /\ settleTimes = <<>> /\ response = NoResponse
    /\ modelCalls = <<>> /\ settleOrder = <<>> /\ cancelled = FALSE

SeqIdle ==
    /\ modelOutcomes = <<>> /\ seqPc = "off" /\ seqChunks = <<>> /\ seqIndex = 0
    /\ seqClassifications = EmptyMap /\ seqErrors = <<>> /\ seqResponse = NoResponse

ValIdle == vBatch = <<>> /\ vBuckets = <<>> /\ vRaw = NonArray /\ vOut = NoOutcome
ChunkIdle == cArray = <<>> /\ cSize = 1 /\ cOut = <<>>
NoUrl == [pathname |-> <<>>, search |-> ""]
NoAnswer == [kind |-> "none", url |-> NoUrl]
MwIdle ==
    /\ mwSession = FALSE /\ mwPc = "off" /\ mwRequest = NoUrl
    /\ mwResponse = NoAnswer /\ mwSessionSeen = FALSE /\ mwHops = 0
\* The route as the source builds it, answered by any model.
SourceTuning ==
    batchSize = BATCH_SIZE /\ ratePerSecond = RATE_PER_SECOND /\ assignment = EmptyMap

LoadProcs == {"l1", "l2"}
BucketsIdle ==
    /\ bucketTable = <<>>
    /\ loadPc = [p \in LoadProcs |-> "off"]
    /\ loadBuckets = [p \in LoadProcs |-> <<>>]
    /\ bmPc = "off" /\ bmBuckets = <<>> /\ editingBucketId = 0
    /\ isCreating = FALSE /\ bmLoading = FALSE /\ bmError = Null
    /\ bmData = "" /\ bmTarget = 0 /\ bmSubmits = 0

\* A setup that does not test the API key before the dispatch loop.
POSTValidateKeyUnchecked ==
    /\ pc = "request"
    /\ IF ~bodyParses \/ Len(emails) = 0 \/ Len(buckets) = 0
       THEN /\ response' = [NoResponse EXCEPT !.status = 400]
            /\ pc' = "done"
            /\ UNCHANGED <<emailChunks, batchStatus, batchOut, settleTimes>>
       ELSE /\ emailChunks' = chunkArray(emails, batchSize)
            /\ batchStatus' = [k \in 1..Len(emailChunks') |-> "pending"]
            /\ batchOut' = [k \in 1..Len(emailChunks') |-> NoResult]
            /\ settleTimes' = [k \in 1..Len(emailChunks') |-> -1]
            /\ pc' = "loop"
            /\ UNCHANGED response
    /\ UNCHANGED <<requestVars, cancelled, i, requestCounter, windowStartTime,
                   now, wakeAt, startTimes, modelCalls, settleOrder, nonRunVars>>

\* Steps 1 to 3: the schema (min(1) on both lists), chunking, the API key.
POSTValidate ==
    /\ pc = "request"
    /\ IF ~bodyParses \/ Len(emails) = 0 \/ Len(buckets) = 0
       THEN /\ response' = [NoResponse EXCEPT !.status = 400]
            /\ pc' = "done"
            /\ UNCHANGED <<emailChunks, batchStatus, batchOut, settleTimes>>
       ELSE IF ~apiKeySet
       THEN /\ response' = [NoResponse EXCEPT !.status = 500]
            /\ pc' = "done"
            /\ emailChunks' = chunkArray(emails, batchSize)
            /\ UNCHANGED <<batchStatus, batchOut, settleTimes>>
       ELSE /\ emailChunks' = chunkArray(emails, batchSize)
            /\ batchStatus' = [k \in 1..Len(emailChunks') |-> "pending"]
            /\ batchOut' = [k \in 1..Len(emailChunks') |-> NoResult]
            /\ settleTimes' = [k \in 1..Len(emailChunks') |-> -1]
            /\ pc' = "loop"
            /\ UNCHANGED response
    /\ UNCHANGED <<requestVars, cancelled, i, requestCounter, windowStartTime,
                   now, wakeAt, startTimes, modelCalls, settleOrder, nonRunVars>>

\* One iteration of the dispatch loop. processSingleBatch(batch, i) is called
\* (the batch starts at `now`), its synchronous part up to the await of
\* generateObject takes d ms, then the window counter is checked.
StartBatch(d) ==
    /\ pc = "loop"
    /\ i < Len(emailChunks)
    /\ startTimes' = Append(startTimes, now)
    /\ modelCalls' = Append(modelCalls, i + 1)
    /\ batchStatus' = [batchStatus EXCEPT ![i + 1] = "inflight"]
    /\ now' = now + d
    /\ i' = i + 1
    /\ IF requestCounter + 1 >= ratePerSecond
       THEN LET elapsedTime == now' - windowStartTime
                delayNeeded == Max2(0, (WINDOW_MS + RATE_LIMIT_DELAY_BUFFER_MS)
                                       - elapsedTime)
            IN  IF delayNeeded > 0
                THEN /\ pc' = "delay"
                     /\ wakeAt' = now' + delayNeeded
                     /\ requestCounter' = requestCounter + 1
                     /\ UNCHANGED windowStartTime
                ELSE /\ requestCounter' = 0
                     /\ windowStartTime' = now'
                     /\ pc' = IF i' < Len(emailChunks) THEN "loop" ELSE "await"
                     /\ UNCHANGED wakeAt
       ELSE /\ requestCounter' = requestCounter + 1
            /\ pc' = IF i' < Len(emailChunks) THEN "loop" ELSE "await"
            /\ UNCHANGED <<windowStartTime, wakeAt>>
    /\ UNCHANGED <<requestVars, cancelled, emailChunks, batchOut, settleTimes,
                   settleOrder, response, nonRunVars>>

\* A limiter whose wait returns at once instead of after delayNeeded.
DelayElapsedAtOnce ==
    /\ pc = "delay"
    /\ now' = now
    /\ requestCounter' = 0
    /\ windowStartTime' = now'
    /\ pc' = IF i < Len(emailChunks) THEN "loop" ELSE "await"
    /\ UNCHANGED <<requestVars, cancelled, emailChunks, i, wakeAt,
                   startTimes, batchStatus, batchOut, settleTimes, modelCalls,
                   settleOrder, response, nonRunVars>>

\* The setTimeout of the rate limiter fires; counter and window are reset.
DelayElapsed ==
    /\ pc = "delay"
    /\ now' = Max2(now, wakeAt)
    /\ requestCounter' = 0
    /\ windowStartTime' = now'
    /\ pc' = IF i < Len(emailChunks) THEN "loop" ELSE "await"
    /\ UNCHANGED <<requestVars, cancelled, emailChunks, i, wakeAt, startTimes,
                   batchStatus, batchOut, settleTimes, modelCalls, settleOrder,
                   response, nonRunVars>>

\* A batch that also writes its result into the shared final map and list.
BatchSettleWritingShared(k, raw) ==
    /\ pc \in {"delay", "await"}
    /\ k \in 1..Len(emailChunks)
    /\ batchStatus[k] = "inflight"
    /\ LET value == processSingleBatch(emailChunks[k], buckets, raw)
       IN  /\ batchOut' = [batchOut EXCEPT ![k] =
                              [status |-> "fulfilled", value |-> value]]
           /\ response' = [response EXCEPT
                              !.classifications = objectAssign(@, value.classifications),
                              !.errors = @ \o value.errors]
    /\ batchStatus' = [batchStatus EXCEPT ![k] = "settled"]
    /\ settleTimes' = [settleTimes EXCEPT ![k] = now]
    /\ settleOrder' = Append(settleOrder, k)
    /\ UNCHANGED <<requestVars, cancelled, pc, emailChunks, i, requestCounter,
                   windowStartTime, now, wakeAt, startTimes, modelCalls, nonRunVars>>

\* A batch that calls the model again when its result is an error.
BatchSettleRetrying(k, raw) ==
    /\ pc \in {"delay", "await"}
    /\ k \in 1..Len(emailChunks)
    /\ batchStatus[k] = "inflight"
    /\ LET value == processSingleBatch(emailChunks[k], buckets, raw)
       IN  IF value.errors # <<>>
           THEN /\ modelCalls' = Append(modelCalls, k)
                /\ UNCHANGED <<batchStatus, batchOut, settleTimes, settleOrder>>
           ELSE /\ batchStatus' = [batchStatus EXCEPT ![k] = "settled"]
                /\ batchOut' = [batchOut EXCEPT ![k] =
                                   [status |-> "fulfilled", value |-> value]]
                /\ settleTimes' = [settleTimes EXCEPT ![k] = now]
                /\ settleOrder' = Append(settleOrder, k)
                /\ UNCHANGED modelCalls
    /\ UNCHANGED <<requestVars, cancelled, pc, emailChunks, i, requestCounter,
                   windowStartTime, now, wakeAt, startTimes, response, nonRunVars>>

\* The model call of batch k settles with outcome raw while POST is suspended
\* (in the limiter's timeout or in Promise.allSettled); the rest of
\* processSingleBatch runs and its promise is fulfilled.
BatchSettle(k, raw) ==
    /\ pc \in {"delay", "await"}
    /\ k \in 1..Len(emailChunks)
    /\ batchStatus[k] = "inflight"
    /\ batchStatus' = [batchStatus EXCEPT ![k] = "settled"]
    /\ batchOut' = [batchOut EXCEPT ![k] =
                       [status |-> "fulfilled",
                        value |-> processSingleBatch(emailChunks[k], buckets, raw)]]
    /\ settleTimes' = [settleTimes EXCEPT ![k] = now]
    /\ settleOrder' = Append(settleOrder, k)
    /\ UNCHANGED <<requestVars, cancelled, pc, emailChunks, i, requestCounter,
                   windowStartTime, now, wakeAt, startTimes, modelCalls, response,
                   nonRunVars>>

\* A merge that takes the batch results in the order in which they settled.
AggregateInCompletionOrder ==
    /\ pc = "await"
    /\ \A k \in 1..Len(emailChunks) : batchStatus[k] = "settled"
    /\ LET byCompletion == [j \in 1..Len(settleOrder) |-> batchOut[settleOrder[j]]]
           chunksByCompletion == [j \in 1..Len(settleOrder) |-> emailChunks[settleOrder[j]]]
           m == mergeResults(byCompletion, chunksByCompletion, Len(byCompletion))
       IN  response' = [status |-> 200, classifications |-> m.classifications,
                        errors |-> m.errors]
    /\ pc' = "done"
    /\ UNCHANGED <<requestVars, cancelled, emailChunks, i, requestCounter,
                   windowStartTime, now, wakeAt, startTimes, batchStatus, batchOut,
                   settleTimes, modelCalls, settleOrder, nonRunVars>>

\* A merge that does not wait for the batches in flight.
AggregateWithoutWaiting ==
    /\ pc = "await"
    /\ LET m == mergeResults(batchOut, emailChunks, Len(batchOut))
       IN  response' = [status |-> 200, classifications |-> m.classifications,
                        errors |-> m.errors]
    /\ pc' = "done"
    /\ UNCHANGED <<requestVars, cancelled, emailChunks, i, requestCounter,
                   windowStartTime, now, wakeAt, startTimes, batchStatus, batchOut,
                   settleTimes, modelCalls, settleOrder, nonRunVars>>

\* Steps 5 and 6: allSettled resolves, the results are merged and returned.
Aggregate ==
    /\ pc = "await"
    /\ \A k \in 1..Len(emailChunks) : batchStatus[k] = "settled"
    /\ LET m == mergeResults(batchOut, emailChunks, Len(batchOut))
       IN  response' = [status |-> 200, classifications |-> m.classifications,
                        errors |-> m.errors]
    /\ pc' = "done"
    /\ UNCHANGED <<requestVars, cancelled, emailChunks, i, requestCounter,
                   windowStartTime, now, wakeAt, startTimes, batchStatus, batchOut,
                   settleTimes, modelCalls, settleOrder, nonRunVars>>

(***************************************************************************)
(* Spec: one request with any pattern of repeated thread ids and any model *)
(* outcome per batch.                                                      *)
(***************************************************************************)
Init ==
    /\ emails \in UNION {CanonLists(n) : n \in 0..MaxEmails}
    /\ buckets \in BucketLists \cup {<<>>}
    /\ apiKeySet \in BOOLEAN
    /\ bodyParses \in BOOLEAN
    /\ SourceTuning
    /\ pc = "request"
    /\ RunIdle
    /\ ChunkIdle
    /\ MwIdle
    /\ BucketsIdle
    /\ ValIdle
    /\ SeqIdle
    /\ SyncIdle
    /\ ClientIdle

Next ==
    \/ POSTValidate
    \/ StartBatch(0)
    \/ DelayElapsed
    \/ \E k \in 1..Len(emailChunks) :
          \E raw \in RunOutcomes(emailChunks[k], buckets) : BatchSettle(k, raw)
    \/ Aggregate

Spec == Init /\ [][Next]_vars

(***************************************************************************)
(* SpecLive: Spec with the scheduling the runtime guarantees. The route's  *)
(* own steps (validation, the loop, the limiter's timer, the continuation  *)
(* of Promise.allSettled) run when they can; the answer of a model call is *)
(* the provider's step and may never come: generateObject is called        *)
(* without abortSignal or timeout, so nothing in the route ends the wait.  *)
(***************************************************************************)
SpecLive ==
    /\ Init
    /\ [][Next]_vars
    /\ WF_vars(POSTValidate)
    /\ WF_vars(StartBatch(0))
    /\ WF_vars(DelayElapsed)
    /\ WF_vars(Aggregate)

(***************************************************************************)
(* SpecRate: requests of up to MaxRateEmails distinct emails, so that the  *)
(* limiter passes through several windows; a batch start is instantaneous  *)
(* or slow; the model answers well, fails, or omits the last id.           *)
(***************************************************************************)
RateOutcomes(batchThreadIds, bkts) ==
    {ApiError, GoodAnswer(batchThreadIds, bkts),
     ArrayOf(SubSeq(GoodAnswer(batchThreadIds, bkts).items, 1,
                    Len(batchThreadIds) - 1))}

InitRate ==
    /\ emails \in {DistinctList(n) : n \in 1..MaxRateEmails}
    /\ buckets = <<B("b1", "Work"), B("b2", "Personal")>>
    /\ apiKeySet = TRUE /\ bodyParses = TRUE /\ SourceTuning
    /\ pc = "request"
    /\ RunIdle
    /\ ChunkIdle
    /\ MwIdle
    /\ BucketsIdle
    /\ ValIdle
    /\ SeqIdle
    /\ SyncIdle
    /\ ClientIdle

NextRate ==
    \/ POSTValidate
    \/ \E d \in {0, SlowStartMs} : StartBatch(d)
    \/ DelayElapsed
    \/ \E k \in 1..Len(emailChunks) :
          \E raw \in RateOutcomes(emailChunks[k], buckets) : BatchSettle(k, raw)
    \/ Aggregate

SpecRate == InitRate /\ [][NextRate]_vars

(***************************************************************************)
(* SpecCancel: Spec with a caller that may abort its request at any time   *)
(* before the route has answered. The abort is the caller's step: it       *)
(* triggers the signal of the Request object POST is given.                *)
(***************************************************************************)
CallerCancels ==
    /\ pc \in {"request", "loop", "delay", "await"}
    /\ ~cancelled
    /\ cancelled' = TRUE
    /\ UNCHANGED <<requestVars, pc, emailChunks, i, requestCounter, windowStartTime,
                   now, wakeAt, startTimes, batchStatus, batchOut, settleTimes,
                   modelCalls, settleOrder, response, nonRunVars>>

NextCancel == Next \/ CallerCancels

SpecCancel == Init /\ [][NextCancel]_vars

(***************************************************************************)
(* SpecTuning: the route built with any batch size and any start rate,     *)
(* answered by a model that gives each thread id one fixed bucket name.    *)
(***************************************************************************)
AssignedAnswer(batchThreadIds) ==
    ArrayOf([k \in 1..Len(batchThreadIds) |->
                Item(JSString(batchThreadIds[k]), JSString(assignment[batchThreadIds[k]]))])

InitTuning ==
    /\ emails \in UNION {CanonLists(n) : n \in 1..MaxTuneEmails}
    /\ buckets \in BucketLists
    /\ apiKeySet = TRUE /\ bodyParses = TRUE
    /\ batchSize \in 1..MaxBatchSize
    /\ ratePerSecond \in 1..MaxRate
    /\ assignment \in [Range(emails) -> Range(bucketNamesOnly(buckets))]
    /\ pc = "request"
    /\ RunIdle
    /\ ChunkIdle
    /\ MwIdle
    /\ BucketsIdle
    /\ ValIdle
    /\ SeqIdle
    /\ SyncIdle
    /\ ClientIdle

NextTuning ==
    \/ POSTValidate
    \/ StartBatch(0)
    \/ DelayElapsed
    \/ \E k \in 1..Len(emailChunks) : BatchSettle(k, AssignedAnswer(emailChunks[k]))
    \/ Aggregate

SpecTuning == InitTuning /\ [][NextTuning]_vars

(***************************************************************************)
(* The sequential route: POST awaits one batch at a time and waits         *)
(* DELAY_BETWEEN_REQUESTS_MS after each. SpecSequential hands one request  *)
(* and one model outcome per batch to the parallel route and then to the   *)
(* sequential one.                                                         *)
(***************************************************************************)
\* new Set(rawResults.map(r => r?.threadId)): the threadId values of all
\* elements, undefined for a null element.
seqResultThreadIds(items) ==
    {IF items[k].isObject THEN items[k].threadId ELSE NotAString : k \in 1..Len(items)}

\* The validation block of the sequential route. Its count-mismatch message
\* has no sizes in it: the text is not the parallel route's.
seqValidation(batchThreadIds, bkts, raw) ==
    IF raw.kind # "array" THEN [rule |-> "not_array", arg |-> ""]
    ELSE IF Len(raw.items) # Len(batchThreadIds) THEN [rule |-> "length", arg |-> ""]
    ELSE LET resultThreadIds == seqResultThreadIds(raw.items)
             strings == {v.val : v \in {w \in resultThreadIds : IsString(w)}}
         IN  IF Cardinality(resultThreadIds) # Len(raw.items)
             THEN [rule |-> "duplicate", arg |-> ""]
             ELSE IF Cardinality(resultThreadIds) # Cardinality(Range(batchThreadIds))
                  THEN [rule |-> "count_mismatch_unsized", arg |-> ""]
             ELSE LET m == firstMissing(batchThreadIds, strings)
                  IN  IF m # 0 THEN [rule |-> "missing_id", arg |-> batchThreadIds[m]]
                      ELSE elementScan(raw.items, 1, Range(bucketNamesOnly(bkts)))

\* rawResults.forEach writing into the route's one classifications object.
RECURSIVE seqTranslateInto(_, _, _, _)
seqTranslateInto(classifications, items, n, lookup) ==
    IF n = 0 THEN classifications
    ELSE LET rest == seqTranslateInto(classifications, items, n - 1, lookup)
             bucketName == items[n].bucketName.val
             threadId == items[n].threadId.val
             bucketId == IF bucketName \in DOMAIN lookup THEN lookup[bucketName] ELSE ""
         IN  IF bucketId # ""
             THEN [t \in DOMAIN rest \cup {threadId} |->
                      IF t = threadId THEN bucketId ELSE rest[t]]
             ELSE rest

\* The sequential route stopping at the first batch that fails.
SeqBatchStoppingAtError ==
    /\ seqPc = "batch"
    /\ seqIndex < Len(seqChunks)
    /\ LET batchThreadIds == seqChunks[seqIndex + 1]
           raw == modelOutcomes[seqIndex + 1]
           v == seqValidation(batchThreadIds, buckets, raw)
           failed == raw.kind \in {"noobject", "apierror"} \/ v.rule # "ok"
       IN  /\ seqErrors' =
                 IF raw.kind \in {"noobject", "apierror"}
                 THEN Append(seqErrors, [batchThreadIds |-> batchThreadIds,
                          error |-> [kind |-> raw.kind, rule |-> "", arg |-> ""]])
                 ELSE IF v.rule # "ok"
                 THEN Append(seqErrors, [batchThreadIds |-> batchThreadIds,
                          error |-> [kind |-> "validation", rule |-> v.rule,
                                     arg |-> v.arg]])
                 ELSE seqErrors
           /\ seqClassifications' =
                 IF ~failed
                 THEN seqTranslateInto(seqClassifications, raw.items, Len(raw.items),
                                       bucketNameToIdMapLookup(buckets))
                 ELSE seqClassifications
           /\ seqIndex' = IF failed THEN Len(seqChunks) ELSE seqIndex
           /\ seqPc' = IF failed THEN "batch" ELSE "delay"
    /\ UNCHANGED <<runVars, valVars, modelOutcomes, seqChunks, seqResponse,
                   chunkVars, mwVars, bucketVars, syncVars, clientVars>>

\* Steps 1 and 2 of the sequential route: the schema, chunking, the API key.
SeqValidate ==
    /\ seqPc = "request"
    /\ pc = "done"
    /\ IF ~bodyParses \/ Len(emails) = 0 \/ Len(buckets) = 0
       THEN /\ seqResponse' = [NoResponse EXCEPT !.status = 400]
            /\ seqPc' = "done"
            /\ UNCHANGED seqChunks
       ELSE IF ~apiKeySet
       THEN /\ seqResponse' = [NoResponse EXCEPT !.status = 500]
            /\ seqPc' = "done"
            /\ seqChunks' = chunkArray(emails, batchSize)
       ELSE /\ seqChunks' = chunkArray(emails, batchSize)
            /\ seqPc' = "batch"
            /\ UNCHANGED seqResponse
    /\ UNCHANGED <<runVars, valVars, modelOutcomes, seqIndex, seqClassifications,
                   seqErrors, chunkVars, mwVars, bucketVars, syncVars, clientVars>>

\* One iteration of the for loop up to its delay: the model is called and
\* awaited, its result is validated, then translated into classifications
\* or reported in errors.
SeqBatch ==
    /\ seqPc = "batch"
    /\ seqIndex < Len(seqChunks)
    /\ LET batchThreadIds == seqChunks[seqIndex + 1]
           raw == modelOutcomes[seqIndex + 1]
           v == seqValidation(batchThreadIds, buckets, raw)
       IN  IF Len(batchThreadIds) = 0
           THEN /\ seqIndex' = seqIndex + 1
                /\ UNCHANGED <<seqPc, seqClassifications, seqErrors>>
           ELSE /\ seqErrors' =
                      IF raw.kind \in {"noobject", "apierror"}
                      THEN Append(seqErrors, [batchThreadIds |-> batchThreadIds,
                               error |-> [kind |-> raw.kind, rule |-> "", arg |-> ""]])
                      ELSE IF v.rule # "ok"
                      THEN Append(seqErrors, [batchThreadIds |-> batchThreadIds,
                               error |-> [kind |-> "validation", rule |-> v.rule,
                                          arg |-> v.arg]])
                      ELSE seqErrors
                /\ seqClassifications' =
                      IF raw.kind \notin {"noobject", "apierror"} /\ v.rule = "ok"
                      THEN seqTranslateInto(seqClassifications, raw.items,
                                            Len(raw.items),
                                            bucketNameToIdMapLookup(buckets))
                      ELSE seqClassifications
                /\ seqPc' = "delay"
                /\ UNCHANGED seqIndex
    /\ UNCHANGED <<runVars, valVars, modelOutcomes, seqChunks, seqResponse,
                   chunkVars, mwVars, bucketVars, syncVars, clientVars>>

\* The delay at the end of the iteration has elapsed.
SeqDelayElapsed ==
    /\ seqPc = "delay"
    /\ seqIndex' = seqIndex + 1
    /\ seqPc' = "batch"
    /\ UNCHANGED <<runVars, valVars, modelOutcomes, seqChunks, seqClassifications,
                   seqErrors, seqResponse, chunkVars, mwVars, bucketVars, syncVars, clientVars>>

\* Step 5: the loop is over, the accumulated results are returned.
SeqReturn ==
    /\ seqPc = "batch"
    /\ seqIndex = Len(seqChunks)
    /\ seqResponse' = [status |-> 200, classifications |-> seqClassifications,
                       errors |-> seqErrors]
    /\ seqPc' = "done"
    /\ UNCHANGED <<runVars, valVars, modelOutcomes, seqChunks, seqIndex,
                   seqClassifications, seqErrors, chunkVars, mwVars, bucketVars, syncVars,
                   clientVars>>

\* Elements of an answer: an id of the batch or a foreign one with a
\* supplied name, the first id with an unknown name, and null.
SeqItems(batchThreadIds, bkts) ==
    {Item(JSString(t), JSString(n)) :
        t \in Range(batchThreadIds) \cup {ForeignId},
        n \in Range(bucketNamesOnly(bkts))}
    \cup {Item(JSString(batchThreadIds[1]), JSString(InvalidBucketName)), NullItem}

\* What the model can answer a batch with: a thrown error, no object, a
\* non-array, an empty array, and every array of the batch's length.
SeqOutcomes(batchThreadIds, bkts) ==
    {ApiError, NoObject, NonArray, ArrayOf(<<>>)}
    \cup {ArrayOf(s) : s \in [1..Len(batchThreadIds) -> SeqItems(batchThreadIds, bkts)]}

SeqBucketLists ==
    { <<B("b1", "Work")>>,
      <<B("b1", "Work"), B("b2", "Personal")>>,
      <<B("b1", "Work"), B("", "Personal")>> }

InitSequential ==
    /\ emails \in UNION {CanonLists(n) : n \in 0..MaxEmails}
    /\ buckets \in SeqBucketLists
    /\ apiKeySet \in BOOLEAN
    /\ bodyParses = TRUE
    /\ SourceTuning
    /\ pc = "request"
    /\ RunIdle
    /\ ChunkIdle
    /\ MwIdle
    /\ BucketsIdle
    /\ ValIdle
    /\ LET chunks == chunkArray(emails, batchSize)
           all == UNION {SeqOutcomes(chunks[k], buckets) : k \in 1..Len(chunks)}
       IN  modelOutcomes \in {f \in [1..Len(chunks) -> all] :
                                 \A k \in 1..Len(chunks) :
                                     f[k] \in SeqOutcomes(chunks[k], buckets)}
    /\ seqPc = "request" /\ seqChunks = <<>> /\ seqIndex = 0
    /\ seqClassifications = EmptyMap /\ seqErrors = <<>> /\ seqResponse = NoResponse
    /\ SyncIdle
    /\ ClientIdle

NextSequential ==
    \/ POSTValidate
    \/ StartBatch(0)
    \/ DelayElapsed
    \/ \E k \in 1..Len(emailChunks) : BatchSettle(k, modelOutcomes[k])
    \/ Aggregate
    \/ SeqValidate
    \/ SeqBatch
    \/ SeqDelayElapsed
    \/ SeqReturn

SpecSequential == InitSequential /\ [][NextSequential]_vars

(***************************************************************************)
(* SpecMiddleware: the middleware in front of one browser's navigations.   *)
(* A pathname is the sequence of its characters, so that startsWith and    *)
(* the matcher's pattern are computed character by character.              *)
(***************************************************************************)
InboxPath == <<"/", "i", "n", "b", "o", "x">>
LoginPath == <<"/", "a", "u", "t", "h", "/", "l", "o", "g", "i", "n">>
protectedRoutes == {InboxPath}

\* String.prototype.startsWith.
startsWith(s, prefix) ==
    /\ Len(s) >= Len(prefix)
    /\ SubSeq(s, 1, Len(prefix)) = prefix

\* NextResponse.redirect(url) for a clone of nextUrl with its pathname
\* replaced: the query string of the request is kept.
Redirect(nextUrl, pathname) ==
    [kind |-> "redirect", url |-> [nextUrl EXCEPT !.pathname = pathname]]
\* The response updateSession produced, returned as it is.
Continue == [kind |-> "continue", url |-> NoUrl]
\* A request the matcher excludes is answered without the middleware.
Bypass == [kind |-> "bypass", url |-> NoUrl]

\* A middleware that sends every request without a session to the login
\* page, the login page included.
middlewareLoginForAll(session, nextUrl) ==
    IF ~session
    THEN Redirect(nextUrl, LoginPath)
    ELSE IF session /\ nextUrl.pathname = LoginPath
         THEN Redirect(nextUrl, InboxPath)
         ELSE Continue

middleware(session, nextUrl) ==
    IF ~session /\ \E path \in protectedRoutes : startsWith(nextUrl.pathname, path)
    THEN Redirect(nextUrl, LoginPath)
    ELSE IF session /\ nextUrl.pathname = LoginPath
         THEN Redirect(nextUrl, InboxPath)
         ELSE Continue

\* config.matcher: every path except those whose part after the leading
\* slash starts with _next/static, _next/image or favicon.ico (the dot of
\* the pattern matches any character) or ends with an image extension.
matcher(pathname) ==
    LET AnyChar == "<any>"
        ExcludedPrefixes ==
            {<<"_", "n", "e", "x", "t", "/", "s", "t", "a", "t", "i", "c">>,
             <<"_", "n", "e", "x", "t", "/", "i", "m", "a", "g", "e">>,
             <<"f", "a", "v", "i", "c", "o", "n", AnyChar, "i", "c", "o">>}
        ExcludedSuffixes ==
            {<<".", "s", "v", "g">>, <<".", "p", "n", "g">>, <<".", "j", "p", "g">>,
             <<".", "j", "p", "e", "g">>, <<".", "g", "i", "f">>,
             <<".", "w", "e", "b", "p">>}
        matchesPrefix(s, pattern) ==
            /\ Len(s) >= Len(pattern)
            /\ \A k \in 1..Len(pattern) : pattern[k] = AnyChar \/ s[k] = pattern[k]
        endsWith(s, suffix) ==
            /\ Len(s) >= Len(suffix)
            /\ SubSeq(s, Len(s) - Len(suffix) + 1, Len(s)) = suffix
    IN  /\ Len(pathname) >= 1 /\ pathname[1] = "/"
        /\ \A pattern \in ExcludedPrefixes : ~matchesPrefix(Tail(pathname), pattern)
        /\ \A suffix \in ExcludedSuffixes : ~endsWith(Tail(pathname), suffix)

\* The browser asks for a page.
MwNavigate(pathname, search) ==
    /\ mwPc \in {"idle", "responded"}
    /\ mwRequest' = [pathname |-> pathname, search |-> search]
    /\ mwResponse' = NoAnswer
    /\ mwHops' = 0
    /\ mwPc' = "request"
    /\ UNCHANGED <<runVars, valVars, seqVars, chunkVars, bucketVars, syncVars,
                   clientVars, mwSession, mwSessionSeen>>

\* The middleware runs for a request the matcher selects.
MwHandle ==
    /\ mwPc = "request"
    /\ matcher(mwRequest.pathname)
    /\ mwSessionSeen' = mwSession
    /\ mwResponse' = middleware(mwSession, mwRequest)
    /\ mwPc' = "responded"
    /\ UNCHANGED <<runVars, valVars, seqVars, chunkVars, bucketVars, syncVars,
                   clientVars, mwSession, mwRequest, mwHops>>

\* A request the matcher excludes is served without the middleware.
MwBypass ==
    /\ mwPc = "request"
    /\ ~matcher(mwRequest.pathname)
    /\ mwResponse' = Bypass
    /\ mwPc' = "responded"
    /\ UNCHANGED <<runVars, valVars, seqVars, chunkVars, bucketVars, syncVars,
                   clientVars, mwSession, mwRequest, mwSessionSeen, mwHops>>

\* The browser follows a redirect, up to its limit of redirects.
MwFollowRedirect ==
    /\ mwPc = "responded"
    /\ mwResponse.kind = "redirect"
    /\ mwHops < MaxRedirects
    /\ mwRequest' = mwResponse.url
    /\ mwResponse' = NoAnswer
    /\ mwHops' = mwHops + 1
    /\ mwPc' = "request"
    /\ UNCHANGED <<runVars, valVars, seqVars, chunkVars, bucketVars, syncVars,
                   clientVars, mwSession, mwSessionSeen>>

\* The user signs in or out, or the session expires, at any moment.
MwSessionChange ==
    /\ mwPc # "off"
    /\ mwSession' = ~mwSession
    /\ UNCHANGED <<runVars, valVars, seqVars, chunkVars, bucketVars, syncVars,
                   clientVars, mwPc, mwRequest, mwResponse, mwSessionSeen, mwHops>>

MwPaths ==
    {<<"/">>,
     <<"/", "i", "n">>,
     InboxPath,
     InboxPath \o <<"/", "a">>,
     InboxPath \o <<"e", "s">>,
     InboxPath \o <<"/", "a", ".", "p", "n", "g">>,
     <<"/", "a">> \o InboxPath,
     LoginPath,
     LoginPath \o <<"/", "a">>,
     <<"/", "a", "u", "t", "h">>,
     <<"/", "f", "a", "v", "i", "c", "o", "n", ".", "i", "c", "o">>,
     <<"/", "_", "n", "e", "x", "t", "/", "i", "m", "a", "g", "e">>}

InitMiddleware ==
    /\ emails = <<>> /\ buckets = <<>> /\ apiKeySet = TRUE /\ bodyParses = TRUE
    /\ SourceTuning /\ pc = "off"
    /\ RunIdle
    /\ ValIdle
    /\ SeqIdle
    /\ ChunkIdle
    /\ mwSession \in BOOLEAN /\ mwPc = "idle" /\ mwRequest = NoUrl
    /\ mwResponse = NoAnswer /\ mwSessionSeen = FALSE /\ mwHops = 0
    /\ BucketsIdle
    /\ SyncIdle
    /\ ClientIdle

NextMiddleware ==
    \/ \E pathname \in MwPaths, search \in {"", "?a=1"} : MwNavigate(pathname, search)
    \/ MwHandle
    \/ MwBypass
    \/ MwFollowRedirect
    \/ MwSessionChange

SpecMiddleware == InitMiddleware /\ [][NextMiddleware]_vars

(***************************************************************************)
(* SpecValidator: the validation block and the translation applied to one  *)
(* batch, one bucket list and one raw model output.                        *)
(***************************************************************************)
ValItems(batchThreadIds, bkts) ==
    RunItems(batchThreadIds, bkts)
    \cup {NullItem,
          Item(NotAString, JSString(bkts[1].name)),
          Item(JSString(batchThreadIds[1]), NotAString)}

\* A non-array, every array of at most the batch's length, and the
\* well-formed answer with one more element.
ValOutcomes(batchThreadIds, bkts) ==
    {NonArray}
    \cup UNION {{ArrayOf(s) : s \in [1..n -> ValItems(batchThreadIds, bkts)]} :
                  n \in 0..Len(batchThreadIds)}
    \cup {ArrayOf(Append(GoodAnswer(batchThreadIds, bkts).items, e)) :
            e \in ValItems(batchThreadIds, bkts)}

\* Lines 343 to 419 of processSingleBatch on (vBatch, vBuckets, vRaw).
ValidateBatch ==
    /\ pc = "off"
    /\ vOut = NoOutcome
    /\ LET v == Validation(vBatch, vBuckets, vRaw)
           r == processSingleBatch(vBatch, vBuckets, vRaw)
       IN  vOut' = [valid |-> v.rule = "ok", rule |-> v.rule, arg |-> v.arg,
                    classifications |-> r.classifications]
    /\ UNCHANGED <<runVars, seqVars, vBatch, vBuckets, vRaw, chunkVars, mwVars, bucketVars, syncVars, clientVars>>

InitValidator ==
    /\ emails = <<>> /\ buckets = <<>> /\ apiKeySet = TRUE /\ bodyParses = TRUE
    /\ SourceTuning /\ pc = "off"
    /\ RunIdle
    /\ ChunkIdle
    /\ MwIdle
    /\ BucketsIdle
    /\ vBatch \in UNION {CanonLists(n) : n \in 1..MaxValBatch}
    /\ vBuckets \in BucketLists
    /\ vRaw \in ValOutcomes(vBatch, vBuckets)
    /\ vOut = NoOutcome
    /\ SeqIdle
    /\ SyncIdle
    /\ ClientIdle

NextValidator == ValidateBatch

SpecValidator == InitValidator /\ [][NextValidator]_vars

(***************************************************************************)
(* SpecChunk: chunkArray applied to one array of emails and one size.      *)
(***************************************************************************)
ApplyChunkArray ==
    /\ pc = "off"
    /\ cOut = <<>>
    /\ cOut' = chunkArray(cArray, cSize)
    /\ UNCHANGED <<runVars, valVars, seqVars, cArray, cSize, mwVars, bucketVars, syncVars,
                 clientVars>>

InitChunk ==
    /\ emails = <<>> /\ buckets = <<>> /\ apiKeySet = TRUE /\ bodyParses = TRUE
    /\ SourceTuning /\ pc = "off"
    /\ RunIdle
    /\ ValIdle
    /\ SeqIdle
    /\ cArray \in UNION {CanonLists(n) : n \in 1..MaxChunkLen}
    /\ cSize \in 1..MaxChunkSize
    /\ cOut = <<>>
    /\ MwIdle
    /\ BucketsIdle
    /\ SyncIdle
    /\ ClientIdle

NextChunk == ApplyChunkArray

SpecChunk == InitChunk /\ [][NextChunk]_vars

(***************************************************************************)
(* Sync runs: steps 2 to 5 of InboxPage and processEmailSync.              *)
(***************************************************************************)
BucketIds == {"b1", "b2"}
Warn(p, w) == [syncWarnings EXCEPT ![p] = Append(@, w)]

\* A sync that queries the store for an empty fetched list as well.
SyncBeginQueryingEmpty(p, kind, fetchOk) ==
    /\ syncPc[p] = "idle"
    /\ syncKind' = [syncKind EXCEPT ![p] = kind]
    /\ IF kind = "page" /\ ~fetchOk
       THEN /\ syncWarnings' = Warn(p, "Error fetching Gmail data")
            /\ syncPc' = [syncPc EXCEPT ![p] = "done"]
            /\ UNCHANGED gmail
       ELSE /\ gmail' = [gmail EXCEPT ![p] = inbox]
            /\ syncPc' = [syncPc EXCEPT ![p] = "fetched"]
            /\ UNCHANGED syncWarnings
    /\ UNCHANGED <<runVars, valVars, seqVars, chunkVars, mwVars, bucketVars, clientVars, store, inbox, existing, prepared>>

\* A page load that carries on with the sync after a failed fetch.
SyncBeginContinuing(p, kind, fetchOk) ==
    /\ syncPc[p] = "idle"
    /\ syncKind' = [syncKind EXCEPT ![p] = kind]
    /\ gmail' = [gmail EXCEPT ![p] = inbox]
    /\ syncPc' = [syncPc EXCEPT ![p] = IF Len(inbox) = 0 THEN "done" ELSE "fetched"]
    /\ syncWarnings' = IF kind = "page" /\ ~fetchOk
                       THEN Warn(p, "Error fetching Gmail data")
                       ELSE syncWarnings
    /\ UNCHANGED <<runVars, valVars, seqVars, chunkVars, mwVars, bucketVars, clientVars, store, inbox, existing, prepared>>

\* The run starts with the fetched list. The page fetches it itself and
\* skips the sync when the fetch fails or is empty; processEmailSync is
\* handed the list and returns at once when it is empty.
SyncBegin(p, kind, fetchOk) ==
    /\ syncPc[p] = "idle"
    /\ syncKind' = [syncKind EXCEPT ![p] = kind]
    /\ IF kind = "page" /\ ~fetchOk
       THEN /\ syncWarnings' = Warn(p, "Error fetching Gmail data")
            /\ syncPc' = [syncPc EXCEPT ![p] = "done"]
            /\ UNCHANGED gmail
       ELSE /\ gmail' = [gmail EXCEPT ![p] = inbox]
            /\ syncPc' = [syncPc EXCEPT ![p] =
                             IF Len(inbox) = 0 THEN "done" ELSE "fetched"]
            /\ UNCHANGED syncWarnings
    /\ UNCHANGED <<runVars, valVars, seqVars, chunkVars, mwVars, bucketVars, clientVars, store, inbox, existing, prepared>>

\* A sync that takes a failed select as "nothing is stored" and goes on.
SyncSelectExistingIgnoringError(p, dbOk) ==
    /\ syncPc[p] = "fetched"
    /\ syncWarnings' = IF dbOk THEN syncWarnings
                       ELSE Warn(p, "Failed to fetch existing email IDs")
    /\ existing' = [existing EXCEPT ![p] =
                       IF dbOk
                       THEN DOMAIN store \cap {gmail[p][k].threadId :
                                                 k \in 1..Len(gmail[p])}
                       ELSE {}]
    /\ prepared' = [prepared EXCEPT ![p] = prepareSyncActions(gmail[p], existing'[p])]
    /\ syncPc' = [syncPc EXCEPT ![p] =
                     IF ~prepared'[p].threw /\ Len(prepared'[p].emailsToUpsert) > 0
                     THEN "upserting" ELSE "done"]
    /\ UNCHANGED <<runVars, valVars, seqVars, chunkVars, mwVars, bucketVars, clientVars, store, inbox, syncKind, gmail>>

\* A sync whose try block does not cover prepareSyncActions: its exception
\* leaves the run instead of becoming a warning.
SyncSelectExistingUncaught(p, dbOk) ==
    /\ syncPc[p] = "fetched"
    /\ IF ~dbOk
       THEN /\ syncWarnings' = Warn(p, "Failed to fetch existing email IDs")
            /\ syncPc' = [syncPc EXCEPT ![p] = "done"]
            /\ UNCHANGED <<existing, prepared>>
       ELSE /\ existing' = [existing EXCEPT ![p] =
                               DOMAIN store \cap {gmail[p][k].threadId :
                                                    k \in 1..Len(gmail[p])}]
            /\ prepared' = [prepared EXCEPT ![p] =
                               prepareSyncActions(gmail[p], existing'[p])]
            /\ syncPc' = [syncPc EXCEPT ![p] =
                             IF prepared'[p].threw THEN "threw"
                             ELSE IF Len(prepared'[p].emailsToUpsert) > 0
                                  THEN "upserting" ELSE "done"]
            /\ UNCHANGED syncWarnings
    /\ UNCHANGED <<runVars, valVars, seqVars, chunkVars, mwVars, bucketVars, clientVars, store, inbox, syncKind, gmail>>

\* The select of the stored ids among the fetched ones, then
\* prepareSyncActions on its answer.
SyncSelectExisting(p, dbOk) ==
    /\ syncPc[p] = "fetched"
    /\ IF ~dbOk
       THEN /\ syncWarnings' = Warn(p, "Failed to fetch existing email IDs")
            /\ syncPc' = [syncPc EXCEPT ![p] = "done"]
            /\ UNCHANGED <<existing, prepared>>
       ELSE /\ existing' = [existing EXCEPT ![p] =
                               DOMAIN store \cap {gmail[p][k].threadId :
                                                    k \in 1..Len(gmail[p])}]
            /\ prepared' = [prepared EXCEPT ![p] =
                               prepareSyncActions(gmail[p], existing'[p])]
            /\ IF prepared'[p].threw
               THEN /\ syncWarnings' = Warn(p, IF syncKind[p] = "page"
                                               THEN "Invalid time value"
                                               ELSE "Unexpected sync error")
                    /\ syncPc' = [syncPc EXCEPT ![p] = "done"]
               ELSE /\ syncPc' = [syncPc EXCEPT ![p] =
                                     IF Len(prepared'[p].emailsToUpsert) > 0
                                     THEN "upserting" ELSE "done"]
                    /\ UNCHANGED syncWarnings
    /\ UNCHANGED <<runVars, valVars, seqVars, chunkVars, mwVars, bucketVars, clientVars, store, inbox, syncKind, gmail>>

\* The upsert of emailsToUpsert.
SyncUpsert(p, dbOk) ==
    /\ syncPc[p] = "upserting"
    /\ IF dbOk /\ ~HasDuplicateIds(prepared[p].emailsToUpsert)
       THEN /\ store' = upsertEmails(store, prepared[p].emailsToUpsert)
            /\ UNCHANGED syncWarnings
       ELSE /\ syncWarnings' = Warn(p, "Failed to save some email data")
            /\ UNCHANGED store
    /\ syncPc' = [syncPc EXCEPT ![p] = "done"]
    /\ UNCHANGED <<runVars, valVars, seqVars, chunkVars, mwVars, bucketVars, clientVars, inbox, syncKind, gmail, existing, prepared>>

\* A client persists the classifications a run returned for stored emails.
ClassifyPersist(dbUpdates) ==
    /\ DOMAIN dbUpdates # {}
    /\ DOMAIN dbUpdates \subseteq DOMAIN store
    /\ store' = upsertBucketIds(store, dbUpdates)
    /\ store' # store
    /\ UNCHANGED <<runVars, valVars, seqVars, chunkVars, mwVars, bucketVars, clientVars, inbox, syncKind, syncPc, gmail, existing,
                   prepared, syncWarnings>>

(***************************************************************************)
(* SpecSync: two concurrent sync runs of one user against one remote       *)
(* inbox, interleaved with the persistence of classifications.             *)
(***************************************************************************)
FetchEntries ==
    {G(Tid(n), sd[1], sd[2]) :
        n \in 1..MaxFetch,
        sd \in {<<"s1", GoodDate>>, <<"s2", GoodDate>>, <<"s1", BadDate>>, <<"s1", "">>}}

StoredRow(b) == [bucket_id |-> b, subject |-> "s1", email_date |-> Null]

InitSync ==
    /\ emails = <<>> /\ buckets = <<>> /\ apiKeySet = TRUE /\ bodyParses = TRUE
    /\ SourceTuning /\ pc = "off"
    /\ RunIdle
    /\ ChunkIdle
    /\ MwIdle
    /\ BucketsIdle
    /\ ValIdle
    /\ SeqIdle
    /\ store \in {EmptyStore} \cup {[t \in {Tid(1)} |-> StoredRow(b)] :
                                      b \in {Null, "b1"}}
    /\ inbox \in UNION {[1..n -> FetchEntries] : n \in 0..MaxFetch}
    /\ syncKind = [p \in SyncProcs |-> "page"]
    /\ syncPc = [p \in SyncProcs |-> "idle"]
    /\ gmail = [p \in SyncProcs |-> <<>>]
    /\ existing = [p \in SyncProcs |-> {}]
    /\ prepared = [p \in SyncProcs |-> NoPrepared]
    /\ syncWarnings = [p \in SyncProcs |-> <<>>]
    /\ ClientIdle

NextSync ==
    \/ \E p \in SyncProcs : \E kind \in {"page", "processor"} :
          \E fetchOk \in BOOLEAN : SyncBegin(p, kind, fetchOk)
    \/ \E p \in SyncProcs : \E dbOk \in BOOLEAN : SyncSelectExisting(p, dbOk)
    \/ \E p \in SyncProcs : \E dbOk \in BOOLEAN : SyncUpsert(p, dbOk)
    \/ \E ids \in SUBSET DOMAIN store : \E dbUpdates \in [ids -> BucketIds] :
          ClassifyPersist(dbUpdates)

SpecSync == InitSync /\ [][NextSync]_vars

(***************************************************************************)
(* The inbox page's client components: the Classify dialog                 *)
(* (EmailClassifierButton) and InitialClassifier.                          *)
(***************************************************************************)
E(id, bucketId) == [id |-> id, bucket_id |-> bucketId]
emailIds(list) == [k \in 1..Len(list) |-> list[k].id]
bucketIdsOf(bkts) == {bkts[k].id : k \in 1..Len(bkts)}

\* The dialog's working set: unclassified emails plus those of the selected
\* buckets. `email.bucket_id && ...` is false for an empty bucket_id.
emailsOfSelectedBucketsOnly(allEmails, selected) ==
    SelectSeq(allEmails, LAMBDA email :
        email.bucket_id # Null /\ email.bucket_id # "" /\ email.bucket_id \in selected)

\* A working set that takes the classified emails of every bucket.
emailsOfEveryBucket(allEmails, selected) ==
    SelectSeq(allEmails, LAMBDA email :
        \/ email.bucket_id = Null
        \/ email.bucket_id # "")

emailsToActuallyClassify(allEmails, selected) ==
    SelectSeq(allEmails, LAMBDA email :
        \/ email.bucket_id = Null
        \/ (email.bucket_id # "" /\ email.bucket_id \in selected))

\* The page's unclassifiedEmailIdsForClient and InitialClassifier's filter.
unclassifiedEmailIds(allEmails) ==
    {allEmails[k].id : k \in {j \in 1..Len(allEmails) : allEmails[j].bucket_id = Null}}

emailsToClassify(allEmails) ==
    SelectSeq(allEmails, LAMBDA email :
        email.id \in unclassifiedEmailIds(allEmails) /\ email.bucket_id = Null)

nothingToClassifyNever(list) == FALSE

nothingToClassify(list) == Len(list) = 0

hasUnclassified == \E k \in 1..Len(allFetchedEmails) : allFetchedEmails[k].bucket_id = Null
canStartClassification == hasUnclassified \/ selectedBucketIds # {}

\* What the page's final fetch returns for the stored rows.
finalEmailsForDisplay(st) ==
    LET stored == SelectSeq(TidNames, LAMBDA t : t \in DOMAIN st)
    IN  [k \in 1..Len(stored) |-> E(stored[k], st[stored[k]].bucket_id)]

\* Answers of the route to a request: the fetch rejects, a non-2xx status,
\* or 200 with classifications for some of the request's ids, each a
\* non-empty id of one of the request's buckets.
ApiAnswers(threadIds, bkts) ==
    {[kind |-> k, classifications |-> EmptyMap, errors |-> FALSE] :
        k \in {"network", "http_error"}}
    \cup {[kind |-> "ok", classifications |-> c, errors |-> e] :
            c \in UNION {[S -> bucketIdsOf(bkts) \ {""}] :
                            S \in SUBSET Range(threadIds)},
            e \in BOOLEAN}

Request(from, list) ==
    [from |-> from, emails |-> emailIds(list), buckets |-> availableBuckets]

\* The effect on isDialogOpen: clears the status, and the selection on close.
OpenDialog ==
    /\ ~isDialogOpen /\ dlgPc # "off"
    /\ Len(allFetchedEmails) > 0
    /\ isDialogOpen' = TRUE
    /\ statusMessage' = Null
    /\ UNCHANGED <<runVars, valVars, seqVars, chunkVars, mwVars, bucketVars, syncVars, propVars, apiRequests, icVars,
                   selectedBucketIds, isLoading, isPending, dlgPc, dlgRun, closeTimer>>

CloseDialog ==
    /\ isDialogOpen
    /\ isDialogOpen' = FALSE
    /\ statusMessage' = Null
    /\ selectedBucketIds' = {}
    /\ UNCHANGED <<runVars, valVars, seqVars, chunkVars, mwVars, bucketVars, syncVars, propVars, apiRequests, icVars,
                   isLoading, isPending, dlgPc, dlgRun, closeTimer>>

handleCheckboxChange(bucketId, checked) ==
    /\ isDialogOpen /\ ~isLoading
    /\ bucketId \in bucketIdsOf(availableBuckets)
    /\ selectedBucketIds' = IF checked THEN selectedBucketIds \cup {bucketId}
                                       ELSE selectedBucketIds \ {bucketId}
    /\ UNCHANGED <<runVars, valVars, seqVars, chunkVars, mwVars, bucketVars, syncVars, propVars, apiRequests, icVars,
                   isDialogOpen, isLoading, isPending, statusMessage, dlgPc,
                   dlgRun, closeTimer>>

\* handleClassification up to its first await.
handleClassification ==
    /\ isDialogOpen /\ dlgPc = "idle"
    /\ ~isLoading /\ ~isPending /\ canStartClassification
    /\ Len(apiRequests) < MaxRequests
    /\ LET list == emailsToActuallyClassify(allFetchedEmails, selectedBucketIds)
       IN  IF nothingToClassify(list)
           THEN /\ statusMessage' = "No emails matching the criteria"
                /\ UNCHANGED <<apiRequests, isLoading, dlgPc, dlgRun>>
           ELSE IF Len(availableBuckets) = 0
           THEN /\ statusMessage' = "Cannot classify: No buckets available."
                /\ UNCHANGED <<apiRequests, isLoading, dlgPc, dlgRun>>
           ELSE /\ isLoading' = TRUE
                /\ statusMessage' = "Starting classification"
                /\ apiRequests' = Append(apiRequests, Request("dialog", list))
                /\ dlgRun' = [NoRun EXCEPT !.emails = emailIds(list)]
                /\ dlgPc' = "awaitApi"
    /\ UNCHANGED <<runVars, valVars, seqVars, chunkVars, mwVars, bucketVars, syncVars, propVars, icVars, isDialogOpen,
                   selectedBucketIds, isPending, closeTimer>>

\* The answer of the classify request: response.ok, the status line, the
\* dbUpdates (keys and values of a JSON object are strings, so every entry
\* of classifications becomes an update), then the upsert is sent.
DialogApiAnswer(ans) ==
    /\ dlgPc = "awaitApi"
    /\ IF ans.kind # "ok"
       THEN /\ statusMessage' = "Error: API Error"
            /\ isLoading' = FALSE
            /\ dlgPc' = "idle"
            /\ dlgRun' = NoRun
       ELSE IF DOMAIN ans.classifications = {}
       THEN /\ statusMessage' =
                   IF ans.errors
                   THEN "Classification finished with errors and no successful updates."
                   ELSE "Classification ran, but no emails were assigned new buckets."
            /\ isLoading' = FALSE
            /\ dlgPc' = "idle"
            /\ dlgRun' = NoRun
       ELSE /\ statusMessage' = "Updating emails in the database"
            /\ dlgRun' = [dlgRun EXCEPT !.errors = ans.errors,
                                        !.dbUpdates = ans.classifications]
            /\ dlgPc' = "awaitUpsert"
            /\ UNCHANGED isLoading
    /\ UNCHANGED <<runVars, valVars, seqVars, chunkVars, mwVars, bucketVars, syncVars, propVars, apiRequests, icVars,
                   isDialogOpen, selectedBucketIds, isPending, closeTimer>>

\* An upsert answer without the finally block: after an upsert error the
\* loading flag stays set.
DialogUpsertAnswerNoFinally(dbOk) ==
    /\ dlgPc = "awaitUpsert"
    /\ IF dbOk
       THEN /\ store' = upsertBucketIds(store, dlgRun.dbUpdates)
            /\ statusMessage' = IF dlgRun.errors THEN "Partial success!"
                                                 ELSE "Classification complete!"
            /\ isPending' = TRUE
            /\ closeTimer' = TRUE
            /\ isLoading' = FALSE
       ELSE /\ statusMessage' = "Error: Failed to update email buckets"
            /\ UNCHANGED <<store, isPending, closeTimer, isLoading>>
    /\ dlgPc' = "idle"
    /\ dlgRun' = NoRun
    /\ UNCHANGED <<runVars, valVars, seqVars, chunkVars, mwVars, bucketVars, inbox, syncKind,
                   syncPc, gmail, existing, prepared, syncWarnings, propVars,
                   apiRequests, icVars, isDialogOpen, selectedBucketIds>>

\* The answer of the upsert; on success router.refresh() in a transition
\* and the timer that closes the dialog; finally setIsLoading(false).
DialogUpsertAnswer(dbOk) ==
    /\ dlgPc = "awaitUpsert"
    /\ IF dbOk
       THEN /\ store' = upsertBucketIds(store, dlgRun.dbUpdates)
            /\ statusMessage' = IF dlgRun.errors THEN "Partial success!"
                                                 ELSE "Classification complete!"
            /\ isPending' = TRUE
            /\ closeTimer' = TRUE
       ELSE /\ statusMessage' = "Error: Failed to update email buckets"
            /\ UNCHANGED <<store, isPending, closeTimer>>
    /\ isLoading' = FALSE
    /\ dlgPc' = "idle"
    /\ dlgRun' = NoRun
    /\ UNCHANGED <<runVars, valVars, seqVars, chunkVars, mwVars, bucketVars, inbox, syncKind, syncPc, gmail, existing,
                   prepared, syncWarnings, propVars, apiRequests, icVars,
                   isDialogOpen, selectedBucketIds>>

\* setTimeout(() => setIsDialogOpen(false), 2000) fires.
DialogCloseTimer ==
    /\ closeTimer
    /\ closeTimer' = FALSE
    /\ isDialogOpen' = FALSE
    /\ IF isDialogOpen
       THEN statusMessage' = Null /\ selectedBucketIds' = {}
       ELSE UNCHANGED <<statusMessage, selectedBucketIds>>
    /\ UNCHANGED <<runVars, valVars, seqVars, chunkVars, mwVars, bucketVars, syncVars, propVars, apiRequests, icVars,
                   isLoading, isPending, dlgPc, dlgRun>>

\* A router.refresh() completes: the page hands new props to both
\* components, and InitialClassifier's effect runs again on them (a run of
\* the effect that is still in flight keeps its own closure).
RefreshDone(who) ==
    /\ IF who = "dialog" THEN isPending ELSE icRefresh
    /\ allFetchedEmails' = finalEmailsForDisplay(store)
    /\ IF who = "dialog"
       THEN isPending' = FALSE /\ UNCHANGED icRefresh
       ELSE icRefresh' = FALSE /\ UNCHANGED isPending
    /\ icPc' = IF icPc = "done" THEN "mount" ELSE icPc
    /\ UNCHANGED <<runVars, valVars, seqVars, chunkVars, mwVars, bucketVars, syncVars, availableBuckets, apiRequests,
                   isDialogOpen, selectedBucketIds, isLoading, statusMessage,
                   dlgPc, dlgRun, closeTimer, icRun, icLoading, icStatus, icTimer>>

\* InitialClassifier's effect: classifyInitialEmails up to its first await.
classifyInitialEmails ==
    /\ icPc = "mount"
    /\ Len(apiRequests) < MaxRequests
    /\ LET list == emailsToClassify(allFetchedEmails)
       IN  IF nothingToClassify(list) \/ Len(availableBuckets) = 0
           THEN /\ icPc' = "done"
                /\ UNCHANGED <<apiRequests, icRun, icLoading, icStatus>>
           ELSE /\ icLoading' = TRUE
                /\ icStatus' = "Classifying new emails"
                /\ apiRequests' = Append(apiRequests, Request("initial", list))
                /\ icRun' = [NoRun EXCEPT !.emails = emailIds(list)]
                /\ icPc' = "awaitApi"
    /\ UNCHANGED <<runVars, valVars, seqVars, chunkVars, mwVars, bucketVars, syncVars, propVars, dialogVars, icTimer, icRefresh>>

\* The answer of the classify request. Every exit runs the finally block,
\* which arms the timer that clears the loading indicator.
ICApiAnswer(ans) ==
    /\ icPc = "awaitApi"
    /\ IF ans.kind # "ok"
       THEN /\ icStatus' = "Error during initial classification"
            /\ icPc' = "done"
            /\ icTimer' = TRUE
            /\ icRun' = NoRun
            /\ UNCHANGED icLoading
       ELSE IF DOMAIN ans.classifications = {}
       THEN /\ icStatus' =
                   IF ans.errors
                   THEN "Initial classification finished with errors"
                   ELSE "Initial classification ran, but no emails were assigned buckets."
            /\ icLoading' = FALSE
            /\ icPc' = "done"
            /\ icTimer' = TRUE
            /\ icRun' = NoRun
       ELSE /\ icStatus' = "Saving classifications"
            /\ icRun' = [icRun EXCEPT !.errors = ans.errors,
                                      !.dbUpdates = ans.classifications]
            /\ icPc' = "awaitUpsert"
            /\ UNCHANGED <<icLoading, icTimer>>
    /\ UNCHANGED <<runVars, valVars, seqVars, chunkVars, mwVars, bucketVars, syncVars, propVars, apiRequests, dialogVars,
                   icRefresh>>

ICUpsertAnswer(dbOk) ==
    /\ icPc = "awaitUpsert"
    /\ IF dbOk
       THEN /\ store' = upsertBucketIds(store, icRun.dbUpdates)
            /\ icStatus' = IF icRun.errors
                           THEN "Initial classification: updated, some errors occurred."
                           ELSE "Initial classification complete!"
            /\ icRefresh' = TRUE
       ELSE /\ icStatus' = "Error during initial classification"
            /\ UNCHANGED <<store, icRefresh>>
    /\ icPc' = "done"
    /\ icTimer' = TRUE
    /\ icRun' = NoRun
    /\ UNCHANGED <<runVars, valVars, seqVars, chunkVars, mwVars, bucketVars, inbox, syncKind, syncPc, gmail, existing,
                   prepared, syncWarnings, propVars, apiRequests, dialogVars,
                   icLoading>>

\* setTimeout(() => setIsLoading(false), 3000) fires.
ICLoadingTimer ==
    /\ icTimer
    /\ icTimer' = FALSE
    /\ icLoading' = FALSE
    /\ UNCHANGED <<runVars, valVars, seqVars, chunkVars, mwVars, bucketVars, syncVars, propVars, apiRequests, dialogVars,
                   icPc, icRun, icStatus, icRefresh>>

(***************************************************************************)
(* SpecClient: the two components on one page load, over the rows the page *)
(* fetched, with the route answering their requests.                       *)
(***************************************************************************)
\* Rows with distinct ids, each unclassified or in one of the page's buckets.
PageEmails(bkts) ==
    UNION {{[k \in 1..n |-> E(Tid(k), f[k])] :
               f \in [1..n -> {Null} \cup bucketIdsOf(bkts)]} : n \in 0..MaxStored}

PageBuckets == {<<>>, <<B("b1", "Work")>>, <<B("b1", "Work"), B("b2", "Personal")>>}

InitClient ==
    /\ emails = <<>> /\ buckets = <<>> /\ apiKeySet = TRUE /\ bodyParses = TRUE
    /\ SourceTuning /\ pc = "off"
    /\ RunIdle
    /\ ChunkIdle
    /\ MwIdle
    /\ BucketsIdle
    /\ ValIdle
    /\ SeqIdle
    /\ availableBuckets \in PageBuckets
    /\ allFetchedEmails \in PageEmails(availableBuckets)
    /\ store = [t \in Range(emailIds(allFetchedEmails)) |->
                   StoredRow((CHOOSE e \in Range(allFetchedEmails) : e.id = t).bucket_id)]
    /\ inbox = <<>>
    /\ syncKind = [p \in SyncProcs |-> "page"]
    /\ syncPc = [p \in SyncProcs |-> "off"]
    /\ gmail = [p \in SyncProcs |-> <<>>]
    /\ existing = [p \in SyncProcs |-> {}]
    /\ prepared = [p \in SyncProcs |-> NoPrepared]
    /\ syncWarnings = [p \in SyncProcs |-> <<>>]
    /\ apiRequests = <<>>
    /\ isDialogOpen = FALSE /\ selectedBucketIds = {} /\ isLoading = FALSE
    /\ isPending = FALSE /\ statusMessage = Null
    /\ dlgPc = "idle" /\ dlgRun = NoRun /\ closeTimer = FALSE
    /\ icPc = "mount" /\ icRun = NoRun /\ icLoading = FALSE /\ icStatus = Null
    /\ icTimer = FALSE /\ icRefresh = FALSE

NextClient ==
    \/ OpenDialog
    \/ CloseDialog
    \/ \E b \in BucketIds : \E checked \in BOOLEAN : handleCheckboxChange(b, checked)
    \/ handleClassification
    \/ \E ans \in ApiAnswers(dlgRun.emails, availableBuckets) : DialogApiAnswer(ans)
    \/ \E dbOk \in BOOLEAN : DialogUpsertAnswer(dbOk)
    \/ DialogCloseTimer
    \/ \E who \in {"dialog", "initial"} : RefreshDone(who)
    \/ classifyInitialEmails
    \/ \E ans \in ApiAnswers(icRun.emails, availableBuckets) : ICApiAnswer(ans)
    \/ \E dbOk \in BOOLEAN : ICUpsertAnswer(dbOk)
    \/ ICLoadingTimer

SpecClient == InitClient /\ [][NextClient]_vars

(***************************************************************************)
(* SpecBuckets: the buckets table of one user. Two page loads run Step 1   *)
(* (select, then insert of the defaults when the select found no row), and *)
(* BucketManager creates and renames buckets. The table assigns the ids;   *)
(* an insert or update is answered with data or with an error.             *)
(***************************************************************************)
defaultNames ==
    <<"Urgent & Important", "Read Later", "News & Subscriptions",
      "Marketing & Offers", "Notifications", "Receipts", "Other">>

\* What the user types into the name field, and String.prototype.trim.
FormNames == {"   ", "Other", " Other ", "Travel"}
trim(name) ==
    CASE name = "   " -> ""
      [] name = " Other " -> "Other"
      [] OTHER -> name

rowsFrom(table, first) ==
    [k \in 1..(Len(table) - first + 1) |->
        [id |-> first + k - 1, name |-> table[first + k - 1]]]

isFormOpen == isCreating \/ editingBucketId # 0

\* Step 1 of the page: select('*').eq('user_id', userId).
LoadSelect(p, dbOk) ==
    /\ loadPc[p] = "select"
    /\ IF ~dbOk
       THEN /\ loadPc' = [loadPc EXCEPT ![p] = "failed"]
            /\ UNCHANGED loadBuckets
       ELSE IF Len(bucketTable) = 0
       THEN /\ loadPc' = [loadPc EXCEPT ![p] = "insert"]
            /\ UNCHANGED loadBuckets
       ELSE /\ loadPc' = [loadPc EXCEPT ![p] = "done"]
            /\ loadBuckets' = [loadBuckets EXCEPT ![p] = rowsFrom(bucketTable, 1)]
    /\ UNCHANGED <<runVars, valVars, seqVars, chunkVars, mwVars, syncVars, clientVars, bucketTable,
                   bmPc, bmBuckets, editingBucketId, isCreating, bmLoading, bmError,
                   bmData, bmTarget, bmSubmits>>

\* insert(defaultBucketsToInsert).select() after a select that found no row.
LoadInsertDefaults(p, dbOk) ==
    /\ loadPc[p] = "insert"
    /\ IF ~dbOk
       THEN /\ loadPc' = [loadPc EXCEPT ![p] = "failed"]
            /\ UNCHANGED <<bucketTable, loadBuckets>>
       ELSE /\ bucketTable' = bucketTable \o defaultNames
            /\ loadBuckets' = [loadBuckets EXCEPT
                                  ![p] = rowsFrom(bucketTable', Len(bucketTable) + 1)]
            /\ loadPc' = [loadPc EXCEPT ![p] = "done"]
    /\ UNCHANGED <<runVars, valVars, seqVars, chunkVars, mwVars, syncVars, clientVars,
                   bmPc, bmBuckets, editingBucketId, isCreating, bmLoading, bmError,
                   bmData, bmTarget, bmSubmits>>

\* The page of load p renders BucketManager: useState(initialBuckets).
BucketManagerMount(p) ==
    /\ bmPc = "off"
    /\ loadPc[p] = "done"
    /\ bmBuckets' = loadBuckets[p]
    /\ bmPc' = "idle"
    /\ UNCHANGED <<runVars, valVars, seqVars, chunkVars, mwVars, syncVars, clientVars, bucketTable,
                   loadPc, loadBuckets, editingBucketId, isCreating, bmLoading,
                   bmError, bmData, bmTarget, bmSubmits>>

handleCreateClick ==
    /\ bmPc = "idle" /\ ~isFormOpen
    /\ bmError' = Null
    /\ isCreating' = TRUE
    /\ editingBucketId' = 0
    /\ UNCHANGED <<runVars, valVars, seqVars, chunkVars, mwVars, syncVars, clientVars, bucketTable,
                   loadPc, loadBuckets, bmPc, bmBuckets, bmLoading, bmData,
                   bmTarget, bmSubmits>>

handleEditClick(bucketId) ==
    /\ bmPc = "idle" /\ ~isFormOpen
    /\ \E k \in 1..Len(bmBuckets) : bmBuckets[k].id = bucketId
    /\ bmError' = Null
    /\ editingBucketId' = bucketId
    /\ isCreating' = FALSE
    /\ UNCHANGED <<runVars, valVars, seqVars, chunkVars, mwVars, syncVars, clientVars, bucketTable,
                   loadPc, loadBuckets, bmPc, bmBuckets, bmLoading, bmData,
                   bmTarget, bmSubmits>>

handleCancelForm ==
    /\ bmPc = "idle" /\ isFormOpen /\ ~bmLoading
    /\ editingBucketId' = 0
    /\ isCreating' = FALSE
    /\ bmError' = Null
    /\ UNCHANGED <<runVars, valVars, seqVars, chunkVars, mwVars, syncVars, clientVars, bucketTable,
                   loadPc, loadBuckets, bmPc, bmBuckets, bmLoading, bmData,
                   bmTarget, bmSubmits>>

\* handleFormSubmit up to its await: the only check of the name is that its
\* trimmed value is not empty.
handleFormSubmit(name) ==
    /\ bmPc = "idle" /\ isFormOpen /\ ~bmLoading
    /\ bmSubmits < MaxSubmits
    /\ IF trim(name) = ""
       THEN /\ bmError' = "Bucket name cannot be empty."
            /\ UNCHANGED <<bmLoading, bmData, bmTarget, bmPc, bmSubmits>>
       ELSE /\ bmError' = Null
            /\ bmLoading' = TRUE
            /\ bmData' = trim(name)
            /\ bmTarget' = editingBucketId
            /\ bmPc' = IF isCreating THEN "awaitInsert" ELSE "awaitUpdate"
            /\ bmSubmits' = bmSubmits + 1
    /\ UNCHANGED <<runVars, valVars, seqVars, chunkVars, mwVars, syncVars, clientVars, bucketTable,
                   loadPc, loadBuckets, bmBuckets, editingBucketId, isCreating>>

\* The answer of insert(dataToUpsert).select().single().
BucketInsertAnswer(dbOk) ==
    /\ bmPc = "awaitInsert"
    /\ IF dbOk
       THEN /\ bucketTable' = Append(bucketTable, bmData)
            /\ bmBuckets' = Append(bmBuckets, [id |-> Len(bucketTable'), name |-> bmData])
            /\ editingBucketId' = 0 /\ isCreating' = FALSE /\ bmError' = Null
       ELSE /\ bmError' = "Failed to save bucket"
            /\ UNCHANGED <<bucketTable, bmBuckets, editingBucketId, isCreating>>
    /\ bmLoading' = FALSE
    /\ bmPc' = "idle"
    /\ UNCHANGED <<runVars, valVars, seqVars, chunkVars, mwVars, syncVars, clientVars, loadPc,
                   loadBuckets, bmData, bmTarget, bmSubmits>>

\* The answer of update({name, description}).eq('id', currentBucketId).
BucketUpdateAnswer(dbOk) ==
    /\ bmPc = "awaitUpdate"
    /\ IF dbOk
       THEN /\ bucketTable' = [bucketTable EXCEPT ![bmTarget] = bmData]
            /\ bmBuckets' = [k \in 1..Len(bmBuckets) |->
                                IF bmBuckets[k].id = bmTarget
                                THEN [id |-> bmTarget, name |-> bmData]
                                ELSE bmBuckets[k]]
            /\ editingBucketId' = 0 /\ isCreating' = FALSE /\ bmError' = Null
       ELSE /\ bmError' = "Failed to save bucket"
            /\ UNCHANGED <<bucketTable, bmBuckets, editingBucketId, isCreating>>
    /\ bmLoading' = FALSE
    /\ bmPc' = "idle"
    /\ UNCHANGED <<runVars, valVars, seqVars, chunkVars, mwVars, syncVars, clientVars, loadPc,
                   loadBuckets, bmData, bmTarget, bmSubmits>>

InitBuckets ==
    /\ emails = <<>> /\ buckets = <<>> /\ apiKeySet = TRUE /\ bodyParses = TRUE
    /\ SourceTuning /\ pc = "off"
    /\ RunIdle
    /\ ChunkIdle
    /\ MwIdle
    /\ ValIdle
    /\ SeqIdle
    /\ SyncIdle
    /\ ClientIdle
    /\ bucketTable = <<>>
    /\ loadPc = [p \in LoadProcs |-> "select"]
    /\ loadBuckets = [p \in LoadProcs |-> <<>>]
    /\ bmPc = "off" /\ bmBuckets = <<>> /\ editingBucketId = 0
    /\ isCreating = FALSE /\ bmLoading = FALSE /\ bmError = Null
    /\ bmData = "" /\ bmTarget = 0 /\ bmSubmits = 0

NextBuckets ==
    \/ \E p \in LoadProcs : \E dbOk \in BOOLEAN : LoadSelect(p, dbOk)
    \/ \E p \in LoadProcs : \E dbOk \in BOOLEAN : LoadInsertDefaults(p, dbOk)
    \/ \E p \in LoadProcs : BucketManagerMount(p)
    \/ handleCreateClick
    \/ \E bucketId \in 1..Len(bucketTable) : handleEditClick(bucketId)
    \/ handleCancelForm
    \/ \E name \in FormNames : handleFormSubmit(name)
    \/ \E dbOk \in BOOLEAN : BucketInsertAnswer(dbOk)
    \/ \E dbOk \in BOOLEAN : BucketUpdateAnswer(dbOk)

SpecBuckets == InitBuckets /\ [][NextBuckets]_vars

(***************************************************************************)
(* Properties of the classification route.                                 *)
(***************************************************************************)
RunReturned == pc = "done" /\ response.status = 200
Failed(k) == batchOut[k].status = "rejected" \/ batchOut[k].value.errors # <<>>
ListedInErrors(t) ==
    \E e \in 1..Len(response.errors) : t \in Range(response.errors[e].batchThreadIds)

\* C1: when a run returns, every thread id of the request is a key of the
\* returned classifications or is listed in the batchThreadIds of an entry
\* of the returned errors.
C1_EveryEmailAccounted ==
    RunReturned =>
        \A k \in 1..Len(emails) :
            emails[k] \in DOMAIN response.classifications \/ ListedInErrors(emails[k])

\* C2: a batch is atomic: it contributes an assignment for every one of its
\* thread ids or for none of them.
C2_BatchesAtomic ==
    RunReturned =>
        \A k \in 1..Len(emailChunks) :
            LET c == batchOut[k].value.classifications
            IN  Range(emailChunks[k]) \subseteq DOMAIN c \/ DOMAIN c = {}

\* The merge of the successful batches alone, in batch order.
RECURSIVE MergeOfSucceeded(_, _)
MergeOfSucceeded(results, n) ==
    IF n = 0 THEN EmptyMap
    ELSE IF results[n].status = "fulfilled" /\ results[n].value.errors = <<>>
         THEN objectAssign(MergeOfSucceeded(results, n - 1),
                           results[n].value.classifications)
    ELSE MergeOfSucceeded(results, n - 1)

\* C3: partial-failure isolation. A failed batch yields an errors entry with
\* its ids, every batch of the run is dispatched and settled whatever failed
\* before it, the returned classifications are exactly what the successful
\* batches contributed, and once all batches have settled the run returns.
C3_PartialFailureIsolation ==
    /\ RunReturned =>
          /\ Len(startTimes) = Len(emailChunks)
          /\ \A k \in 1..Len(emailChunks) : batchStatus[k] = "settled"
          /\ \A k \in 1..Len(emailChunks) :
                Failed(k) =>
                    \E e \in 1..Len(response.errors) :
                        response.errors[e].batchThreadIds = emailChunks[k]
          /\ response.classifications = MergeOfSucceeded(batchOut, Len(batchOut))
    /\ (pc = "await" /\ \A k \in 1..Len(emailChunks) : batchStatus[k] = "settled")
          => ENABLED Aggregate

\* A run returned in which a batch failed before a later batch was started,
\* and that later batch succeeded and is in the returned classifications.
C3_Witness ==
    /\ RunReturned
    /\ \E j \in 1..Len(emailChunks) : \E k \in 1..Len(emailChunks) :
          /\ j < k
          /\ Failed(j)
          /\ settleTimes[j] < startTimes[k]
          /\ ~Failed(k)
          /\ Range(emailChunks[k]) \subseteq DOMAIN response.classifications

\* The six conditions of the response validator, stated on the raw output.
Occurrences(items, t) ==
    Cardinality({k \in 1..Len(items) :
                    items[k].isObject /\ items[k].threadId = JSString(t)})

ValidatorConditions(batchThreadIds, bkts, raw) ==
    /\ raw.kind = "array"
    /\ Len(raw.items) = Len(batchThreadIds)
    /\ \A k \in 1..Len(raw.items) :
          /\ raw.items[k].isObject
          /\ IsString(raw.items[k].threadId)
          /\ IsString(raw.items[k].bucketName)
    /\ \A j \in 1..Len(raw.items) : \A k \in 1..Len(raw.items) :
          j # k => raw.items[j].threadId # raw.items[k].threadId
    /\ \A t \in Range(batchThreadIds) : Occurrences(raw.items, t) = 1
    /\ \A k \in 1..Len(raw.items) :
          raw.items[k].threadId.val \in Range(batchThreadIds)
    /\ \A k \in 1..Len(raw.items) :
          raw.items[k].bucketName.val \in Range(bucketNamesOnly(bkts))

\* C4: the validator accepts a batch exactly when the response is an array
\* of the batch's length whose elements have a string thread id and a string
\* bucket name, no thread id twice, every input id exactly once and no other
\* id, and only supplied bucket names; every other response is rejected.
C4_ValidatorAcceptsIff ==
    vOut # NoOutcome =>
        /\ vOut.valid <=> ValidatorConditions(vBatch, vBuckets, vRaw)
        /\ ~vOut.valid => vOut.classifications = EmptyMap

\* An accepted batch of two ids, and rejections by each rule.
C4_Witness ==
    /\ vOut.valid
    /\ Len(vBatch) = 2
    /\ vBatch[1] # vBatch[2]
    /\ Len(vBuckets) = 2

C4_WitnessRejected ==
    vOut # NoOutcome /\ ~vOut.valid /\ vOut.rule = "missing_id"

\* C5: admission control: at most RATE_PER_SECOND batches are started in any
\* window of one second, whatever the time a batch start takes. (A window
\* holding the most starts can be moved to begin at a start.)
C5_AtMostRStartsPerWindow ==
    \A k \in 1..Len(startTimes) :
        Cardinality({j \in 1..Len(startTimes) :
                        /\ startTimes[k] <= startTimes[j]
                        /\ startTimes[j] < startTimes[k] + WINDOW_MS})
            <= RATE_PER_SECOND

(***************************************************************************)
(* Properties of the sync reconciler.                                      *)
(***************************************************************************)
SyncWrites(p) == syncPc[p] = "upserting" /\ syncPc'[p] = "done"

\* C6: sync never overwrites classification state: in every interleaving of
\* sync runs and classification persistence, a sync write leaves the record
\* of every id that is already stored as it is; in particular it never turns
\* a stored non-null bucket_id into null.
C6_SyncNeverOverwrites ==
    [][\A p \in SyncProcs :
          SyncWrites(p) =>
              \A t \in DOMAIN store :
                  /\ store'[t] = store[t]
                  /\ store[t].bucket_id # Null => store'[t].bucket_id # Null]_vars

Reconciled(p) == prepared[p] # NoPrepared
UpsertIds(p) ==
    {prepared[p].emailsToUpsert[k].id : k \in 1..Len(prepared[p].emailsToUpsert)}

\* C7: for every fetched list and every set of known ids, emailsToUpsert
\* holds no record of a known id and holds a record for every fetched thread
\* id that is not known.
C7_NoKnownIdAndEveryNewId ==
    \A p \in SyncProcs :
        Reconciled(p) =>
            /\ UpsertIds(p) \cap existing[p] = {}
            /\ \A j \in 1..Len(gmail[p]) :
                  gmail[p][j].threadId \notin existing[p]
                      => gmail[p][j].threadId \in UpsertIds(p)

LastOccurrence(list, t) ==
    CHOOSE j \in 1..Len(list) :
        /\ list[j].threadId = t
        /\ \A m \in (j + 1)..Len(list) : list[m].threadId # t

\* C8: a thread id fetched more than once yields at most one record in
\* emailsToUpsert, and that record carries the data of its last occurrence.
C8_DuplicatesDeduplicated ==
    \A p \in SyncProcs :
        Reconciled(p) =>
            LET rows == prepared[p].emailsToUpsert
            IN  /\ ~HasDuplicateIds(rows)
                /\ \A k \in 1..Len(rows) :
                      rows[k].subject =
                          gmail[p][LastOccurrence(gmail[p], rows[k].id)].subject

(***************************************************************************)
(* Properties of the client components.                                    *)
(***************************************************************************)
idsWhere(list, Test(_)) == {list[k].id : k \in {j \in 1..Len(list) : Test(list[j])}}
IsUnclassified(email) == email.bucket_id = Null
InChosenBucket(email) == email.bucket_id \in selectedBucketIds

DialogSubmits ==
    /\ Len(apiRequests') = Len(apiRequests) + 1
    /\ apiRequests'[Len(apiRequests')].from = "dialog"

\* C9: the working set the Classify dialog submits is exactly the union of
\* the emails with bucket_id = null and the emails whose bucket_id is among
\* the chosen bucket ids, each once; an email already assigned to a chosen
\* bucket is submitted again.
C9_DialogSubmitsTheUnion ==
    [][DialogSubmits =>
          LET sent == apiRequests'[Len(apiRequests')].emails
          IN  /\ Range(sent) = idsWhere(allFetchedEmails, IsUnclassified)
                               \cup idsWhere(allFetchedEmails, InChosenBucket)
              /\ Cardinality(Range(sent)) = Len(sent)]_vars

C9_Witness ==
    /\ dlgPc = "awaitApi"
    /\ idsWhere(allFetchedEmails, IsUnclassified) # {}
    /\ idsWhere(allFetchedEmails, InChosenBucket) # {}
    /\ Range(dlgRun.emails) = idsWhere(allFetchedEmails, IsUnclassified)
                              \cup idsWhere(allFetchedEmails, InChosenBucket)

\* C10: a run whose working set is empty sends no classify request and
\* writes no stored record: the dialog's run ends at once with its
\* nothing-to-do status, InitialClassifier's run returns at once.
C10_EmptyWorkingSetIsNoOp ==
    [][/\ (handleClassification
            /\ idsWhere(allFetchedEmails, IsUnclassified) = {}
            /\ idsWhere(allFetchedEmails, InChosenBucket) = {})
          => /\ apiRequests' = apiRequests
             /\ store' = store
             /\ statusMessage' = "No emails matching the criteria"
             /\ dlgPc' = "idle" /\ isLoading' = FALSE
       /\ (classifyInitialEmails /\ idsWhere(allFetchedEmails, IsUnclassified) = {})
          => /\ apiRequests' = apiRequests
             /\ store' = store
             /\ icPc' = "done" /\ UNCHANGED <<icLoading, icStatus>>]_vars

C10_Witness ==
    /\ statusMessage = "No emails matching the criteria"
    /\ icPc = "done"
    /\ Len(allFetchedEmails) > 0
    /\ apiRequests = <<>>

(***************************************************************************)
(* Properties of chunkArray and of the dispatch of batches.                *)
(***************************************************************************)
RECURSIVE Flatten(_)
Flatten(chunks) ==
    IF chunks = <<>> THEN <<>> ELSE Head(chunks) \o Flatten(Tail(chunks))

\* C11: chunkArray partitions n >= 1 emails with limit L >= 1 into
\* ceil(n/L) contiguous batches whose concatenation in order is the input;
\* every batch is non-empty and holds at most L emails, all but the last
\* exactly L. n = 1 and n = L give one batch, n = L + 1 gives batches of
\* sizes L and 1.
C11_ChunkArrayPartitions ==
    cOut # <<>> =>
        LET n == Len(cArray)
            L == cSize
        IN  /\ Len(cOut) = (n + L - 1) \div L
            /\ Flatten(cOut) = cArray
            /\ \A k \in 1..Len(cOut) : Len(cOut[k]) >= 1 /\ Len(cOut[k]) <= L
            /\ \A k \in 1..(Len(cOut) - 1) : Len(cOut[k]) = L
            /\ (n = 1 \/ n = L) => Len(cOut) = 1
            /\ n = L + 1 => /\ Len(cOut) = 2
                            /\ Len(cOut[1]) = L
                            /\ Len(cOut[2]) = 1

\* L + 1 emails with L >= 2 were split into two batches.
C11_Witness ==
    /\ cSize >= 2
    /\ Len(cArray) = cSize + 1
    /\ Len(cOut) = 2

CallsOf(k) == Cardinality({j \in 1..Len(modelCalls) : modelCalls[j] = k})

\* C12: in every run each batch is dispatched to the model exactly once. No
\* batch is ever called twice, a batch that has settled (also one that
\* failed) was called once and is not called again, and when the run
\* returns the number of model calls is the number of batches.
C12_EachBatchDispatchedOnce ==
    /\ \A j \in 1..Len(modelCalls) : modelCalls[j] \in 1..Len(emailChunks)
    /\ \A k \in 1..Len(emailChunks) : CallsOf(k) <= 1
    /\ \A k \in 1..Len(batchStatus) : batchStatus[k] # "pending" => CallsOf(k) = 1
    /\ RunReturned => Len(modelCalls) = Len(emailChunks)

\* A run returned in which a batch had failed while later batches were
\* still to be started.
C12_Witness ==
    /\ RunReturned
    /\ Len(emailChunks) >= 3
    /\ \E j \in 1..Len(emailChunks) :
          /\ Failed(j)
          /\ settleTimes[j] < startTimes[Len(emailChunks)]

AllSettled == \A k \in 1..Len(batchStatus) : batchStatus[k] = "settled"

\* C13: the run returns its result only after every dispatched batch has
\* settled: when the response is produced every batch has been dispatched
\* and none is in flight, and once the result is built no batch outcome
\* arrives and the result does not change.
C13_ReturnsAfterAllSettled ==
    [][/\ (response' # response /\ response'.status = 200)
            => /\ Len(modelCalls) = Len(emailChunks)
               /\ AllSettled
               /\ Len(settleOrder) = Len(emailChunks)
       /\ pc = "done"
            => /\ batchOut' = batchOut
               /\ batchStatus' = batchStatus
               /\ settleOrder' = settleOrder
               /\ response' = response]_vars

\* A run returned whose batches settled at different times, one of them
\* while the dispatch loop was waiting.
C13_Witness ==
    /\ RunReturned
    /\ \E j \in 1..Len(emailChunks) : \E k \in 1..Len(emailChunks) :
          /\ settleTimes[j] < settleTimes[k]
          /\ settleTimes[j] < startTimes[Len(startTimes)]

(***************************************************************************)
(* Properties of rejected batches.                                         *)
(***************************************************************************)
\* The ids a response holds, and the responses that are well formed except
\* that an input id of the batch is absent (left out, or replaced by an id
\* that is not of the batch).
ResponseIds(raw) ==
    {raw.items[j].threadId.val :
        j \in {m \in 1..Len(raw.items) :
                  raw.items[m].isObject /\ IsString(raw.items[m].threadId)}}

WellFormedItems(raw, bkts) ==
    /\ raw.kind = "array"
    /\ \A j \in 1..Len(raw.items) :
          /\ raw.items[j].isObject
          /\ IsString(raw.items[j].threadId) /\ IsString(raw.items[j].bucketName)
          /\ raw.items[j].bucketName.val \in Range(bucketNamesOnly(bkts))
    /\ \A j \in 1..Len(raw.items) : \A m \in 1..Len(raw.items) :
          j # m => raw.items[j].threadId # raw.items[m].threadId

OmitsAnInputId(batchThreadIds, bkts, raw) ==
    /\ WellFormedItems(raw, bkts)
    /\ Len(raw.items) <= Len(batchThreadIds)
    /\ \E t \in Range(batchThreadIds) : t \notin ResponseIds(raw)

RejectedFor(value, batchThreadIds, rules) ==
    /\ value.classifications = EmptyMap
    /\ Len(value.errors) = 1
    /\ value.errors[1].batchThreadIds = batchThreadIds
    /\ value.errors[1].error.kind = "validation"
    /\ value.errors[1].error.rule \in rules

MissingIdRules == {"length", "missing_id"}

\* C14: when a batch's response omits one of the batch's input ids, the
\* batch becomes one errors entry whose reason reports the missing id (the
\* count that is short, or the id that is absent), and every other batch
\* whose response was accepted is classified in the returned result.
C14_MissingIdRejectsOnlyThatBatch ==
    [][/\ \A k \in 1..Len(batchStatus) :
             (batchStatus[k] = "inflight" /\ batchStatus'[k] = "settled") =>
                \A raw \in RunOutcomes(emailChunks[k], buckets)
                             \cup RateOutcomes(emailChunks[k], buckets) :
                   (BatchSettle(k, raw) /\ OmitsAnInputId(emailChunks[k], buckets, raw))
                       => RejectedFor(batchOut'[k].value, emailChunks[k], MissingIdRules)
       /\ (/\ response' # response
           /\ response'.status = 200
           /\ \E k \in 1..Len(emailChunks) :
                 RejectedFor(batchOut[k].value, emailChunks[k], MissingIdRules))
             => \A j \in 1..Len(emailChunks) :
                   batchOut[j].value.errors = <<>>
                       => Range(emailChunks[j]) \subseteq DOMAIN response'.classifications]_vars

\* The bucket names of a response that are not names of supplied buckets,
\* and the responses that hold every input id once and name such a bucket.
InvalidNames(raw, bkts) ==
    {raw.items[j].bucketName.val :
        j \in {m \in 1..Len(raw.items) :
                  /\ raw.items[m].isObject
                  /\ IsString(raw.items[m].bucketName)
                  /\ raw.items[m].bucketName.val \notin Range(bucketNamesOnly(bkts))}}

NamesAnUnknownBucket(batchThreadIds, bkts, raw) ==
    /\ raw.kind = "array"
    /\ Len(raw.items) = Len(batchThreadIds)
    /\ \A j \in 1..Len(raw.items) :
          /\ raw.items[j].isObject
          /\ IsString(raw.items[j].threadId) /\ IsString(raw.items[j].bucketName)
    /\ \A j \in 1..Len(raw.items) : \A m \in 1..Len(raw.items) :
          j # m => raw.items[j].threadId # raw.items[m].threadId
    /\ ResponseIds(raw) = Range(batchThreadIds)
    /\ InvalidNames(raw, bkts) # {}

\* C15: when the model returns for at least one item of a batch a bucket
\* name that is not the name of a supplied bucket, the whole batch is
\* rejected with a reason that cites the invalid name, and no thread id of
\* that batch is a key of the returned classifications.
C15_InvalidBucketRejectsBatch ==
    [][/\ \A k \in 1..Len(batchStatus) :
             (batchStatus[k] = "inflight" /\ batchStatus'[k] = "settled") =>
                \A raw \in RunOutcomes(emailChunks[k], buckets) :
                   (BatchSettle(k, raw)
                      /\ NamesAnUnknownBucket(emailChunks[k], buckets, raw))
                       => /\ RejectedFor(batchOut'[k].value, emailChunks[k],
                                         {"invalid_bucket"})
                          /\ batchOut'[k].value.errors[1].error.arg
                                \in InvalidNames(raw, buckets)
       /\ (response' # response /\ response'.status = 200)
             => \A k \in 1..Len(emailChunks) :
                   RejectedFor(batchOut[k].value, emailChunks[k], {"invalid_bucket"})
                       => Range(emailChunks[k]) \cap DOMAIN response'.classifications = {}]_vars

\* C16: for a batch the validator accepts, every element of the response is
\* translated: its thread id is a key of the batch's classifications and is
\* assigned the id of a supplied bucket that has the returned name, for every
\* supplied bucket list (a bucket whose id is "", buckets sharing a name).
C16_TranslationNeverSkips ==
    (vOut # NoOutcome /\ vOut.valid) =>
        \A j \in 1..Len(vRaw.items) :
            /\ vRaw.items[j].threadId.val \in DOMAIN vOut.classifications
            /\ \E b \in 1..Len(vBuckets) :
                  /\ vBuckets[b].name = vRaw.items[j].bucketName.val
                  /\ vBuckets[b].id = vOut.classifications[vRaw.items[j].threadId.val]

(***************************************************************************)
(* Concurrency of the in-flight batches.                                   *)
(***************************************************************************)
\* The result determined by the per-batch results taken by batch index: the
\* errors of batch 1, then of batch 2, ...; each id is assigned what the
\* batch of highest index that classified it assigned.
ErrorsByIndex == Flatten([k \in 1..Len(batchOut) |-> batchOut[k].value.errors])

ClassifiersOf(t) == {k \in 1..Len(batchOut) : t \in DOMAIN batchOut[k].value.classifications}

ClassificationsByIndex ==
    [t \in UNION {DOMAIN batchOut[k].value.classifications : k \in 1..Len(batchOut)} |->
        LET last == CHOOSE k \in ClassifiersOf(t) : \A m \in ClassifiersOf(t) : m <= k
        IN  batchOut[last].value.classifications[t]]

\* C17: for a fixed request and fixed per-batch outcomes the returned
\* classifications and the returned errors list (in batch-index order) are
\* determined by the per-batch results alone, whatever the order in which
\* the in-flight batch calls completed.
C17_ResultIndependentOfCompletionOrder ==
    RunReturned =>
        /\ response.errors = ErrorsByIndex
        /\ response.classifications = ClassificationsByIndex

\* A run returned whose batches completed in the reverse of their index
\* order, both of them failed, so that the order of the errors shows.
C17_Witness ==
    /\ RunReturned
    /\ Len(settleOrder) >= 2
    /\ settleOrder[1] > settleOrder[2]
    /\ Failed(settleOrder[1]) /\ Failed(settleOrder[2])
    /\ response.errors[1].batchThreadIds = emailChunks[1]

SettlesOf(k) == Cardinality({j \in 1..Len(settleOrder) : settleOrder[j] = k})

\* C18: while batches are in flight a step of a batch writes one slot only,
\* the result of its own batch index, which was empty and is written once;
\* it leaves the results of the other batches and the shared final map and
\* error list alone. The final map and error list are written only by the
\* merge, when every batch has settled, and the merge writes no batch result.
C18_NoSharedWritesInFlight ==
    [][/\ (pc \in {"loop", "delay", "await"} /\ batchOut' # batchOut)
            => /\ response' = response
               /\ \E k \in 1..Len(batchOut) :
                     /\ batchStatus[k] = "inflight" /\ batchStatus'[k] = "settled"
                     /\ batchOut[k] = NoResult
                     /\ SettlesOf(k) = 0 /\ SettlesOf(k)' = 1
                     /\ \A j \in 1..Len(batchOut) : j # k => batchOut'[j] = batchOut[j]
       /\ (pc \in {"loop", "delay", "await"} /\ response' # response)
            => /\ pc = "await" /\ pc' = "done"
               /\ AllSettled /\ Len(settleOrder) = Len(emailChunks)
               /\ \A k \in 1..Len(emailChunks) : SettlesOf(k) = 1
               /\ batchOut' = batchOut]_vars

\* One batch has written its result while another batch is still in flight
\* and the shared result has not been written.
C18_Witness ==
    \E k \in 1..Len(batchOut) : \E j \in 1..Len(batchOut) :
        /\ batchStatus[k] = "settled" /\ batchOut[k].value.classifications # EmptyMap
        /\ batchStatus[j] = "inflight" /\ batchOut[j] = NoResult
        /\ response = NoResponse

\* C19: no two batches of a run contain the same thread id, for every
\* request that passes input validation, so that the merge never replaces
\* an assignment written by an earlier batch.
C19_BatchesDisjoint ==
    /\ \A j \in 1..Len(emailChunks) : \A k \in 1..Len(emailChunks) :
          j # k => Range(emailChunks[j]) \cap Range(emailChunks[k]) = {}
    /\ RunReturned =>
          \A j \in 1..Len(batchOut) : \A k \in 1..Len(batchOut) :
             j < k => DOMAIN batchOut[j].value.classifications
                         \cap DOMAIN batchOut[k].value.classifications = {}

(***************************************************************************)
(* Termination.                                                            *)
(***************************************************************************)
InFlight(k) == k \in 1..Len(batchStatus) /\ batchStatus[k] = "inflight"
BecameErrorOrResult(k) == k \in 1..Len(batchStatus) /\ batchStatus[k] = "settled"

\* C20: every dispatched batch has its own timeout: whether or not its model
\* call ever responds, a batch in flight eventually settles (a call that
\* never responds as an errors entry), and the run eventually returns.
C20_EveryBatchTimesOut ==
    /\ \A k \in 1..MaxEmails : InFlight(k) ~> BecameErrorOrResult(k)
    /\ <>(pc = "done")

(***************************************************************************)
(* The classification runs of the inbox page.                              *)
(***************************************************************************)
RunInFlight(p) == p \in {"awaitApi", "awaitUpsert"}

\* C21: at most one classification run is in flight for a user at any time:
\* the automatic run of InitialClassifier and a run started from the Classify
\* dialog never overlap.
C21_RunsSerialized == ~(RunInFlight(dlgPc) /\ RunInFlight(icPc))

(***************************************************************************)
(* The buckets table.                                                      *)
(***************************************************************************)
\* C22: in every reachable state the user has no two buckets with the same
\* name, also after two concurrent page loads that both found no bucket and
\* after a bucket is created or renamed in BucketManager.
C22_BucketNamesUnique ==
    \A j \in 1..Len(bucketTable) : \A k \in 1..Len(bucketTable) :
        j # k => bucketTable[j] # bucketTable[k]

(***************************************************************************)
(* Setup of a run.                                                         *)
(***************************************************************************)
SetupFails == ~bodyParses \/ Len(emails) = 0 \/ Len(buckets) = 0 \/ ~apiKeySet

\* C23: a setup-phase failure (a malformed body, no emails, no buckets, or
\* no model API key) aborts the run before any batch starts: the request is
\* answered with one error response, no model call is made, no batch is
\* started and no classifications are returned.
C23_SetupFailureAbortsRun ==
    (pc # "off" /\ SetupFails) =>
        /\ pc \in {"request", "done"}
        /\ modelCalls = <<>> /\ startTimes = <<>> /\ settleOrder = <<>>
        /\ \A k \in 1..Len(batchStatus) : batchStatus[k] = "pending"
        /\ response.classifications = EmptyMap /\ response.errors = <<>>
        /\ pc = "done" =>
              response.status =
                 (IF ~bodyParses \/ Len(emails) = 0 \/ Len(buckets) = 0 THEN 400 ELSE 500)

\* A request of more than one batch answered 500 by a server without a key.
C23_Witness ==
    /\ pc = "done" /\ ~apiKeySet /\ bodyParses
    /\ Len(emailChunks) > 1
    /\ response.status = 500

(***************************************************************************)
(* Persisting a classification run.                                        *)
(***************************************************************************)
\* The write of run's dbUpdates: the rows named by the returned
\* classifications get the returned bucket id, every other row is kept.
PersistsOnly(run) ==
    /\ DOMAIN run.dbUpdates \subseteq Range(run.emails)
    /\ DOMAIN store' = DOMAIN store \cup DOMAIN run.dbUpdates
    /\ \A t \in DOMAIN store :
          IF t \in DOMAIN run.dbUpdates
          THEN /\ store'[t].bucket_id = run.dbUpdates[t]
               /\ store'[t].subject = store[t].subject
               /\ store'[t].email_date = store[t].email_date
          ELSE store'[t] = store[t]

\* C24: when a client persists a classification run, the stored bucket_id
\* changes only for emails whose id is a key of the returned
\* classifications; the emails of the request that the run did not classify
\* (those of its failed batches) keep the bucket_id they had, also when
\* other emails of the run were classified. The classifications a run
\* persists are the ones the route returned for it.
C24_PersistChangesOnlyClassified ==
    [][/\ store' # store =>
             \/ dlgPc = "awaitUpsert" /\ dlgPc' = "idle" /\ PersistsOnly(dlgRun)
             \/ icPc = "awaitUpsert" /\ icPc' = "done" /\ PersistsOnly(icRun)
       /\ (dlgPc = "awaitApi" /\ dlgPc' = "awaitUpsert") =>
             \E ans \in ApiAnswers(dlgRun.emails, availableBuckets) :
                /\ DialogApiAnswer(ans)
                /\ dlgRun'.dbUpdates = ans.classifications
       /\ (icPc = "awaitApi" /\ icPc' = "awaitUpsert") =>
             \E ans \in ApiAnswers(icRun.emails, availableBuckets) :
                /\ ICApiAnswer(ans)
                /\ icRun'.dbUpdates = ans.classifications]_vars

\* A run with errors was persisted: one email of the request was classified
\* and another, unclassified before the run, is still unclassified.
C24_Witness ==
    /\ statusMessage = "Partial success!"
    /\ \E k \in 1..Len(allFetchedEmails) :
          /\ allFetchedEmails[k].bucket_id = Null
          /\ store[allFetchedEmails[k].id].bucket_id = Null
    /\ \E k \in 1..Len(allFetchedEmails) :
          /\ allFetchedEmails[k].bucket_id = Null
          /\ store[allFetchedEmails[k].id].bucket_id # Null

(***************************************************************************)
(* Failures of the sync.                                                   *)
(***************************************************************************)
SyncWarningTexts ==
    {"Failed to fetch existing email IDs", "Failed to save some email data",
     "Unexpected sync error"}

\* C25: processEmailSync reports a storage failure as a warning and never
\* throws. Every step of it ends in a state of the function or in its
\* return; a failed query for the existing ids, an exception of the
\* reconciliation and a failed upsert each end the run with one warning
\* and nothing stored; a step without failure adds no warning, so a run in
\* which nothing failed returns the empty list.
C25_SyncFailureIsAWarning ==
    [][\A p \in SyncProcs :
          syncKind'[p] = "processor" =>
             /\ syncPc'[p] \in {"idle", "fetched", "upserting", "done"}
             /\ \A k \in 1..Len(syncWarnings'[p]) :
                   syncWarnings'[p][k] \in SyncWarningTexts
             /\ \A fetchOk \in BOOLEAN :
                   SyncBegin(p, "processor", fetchOk) => syncWarnings'[p] = <<>>
             /\ \A dbOk \in BOOLEAN :
                   SyncSelectExisting(p, dbOk) =>
                      IF ~dbOk \/ prepared'[p].threw
                      THEN /\ syncPc'[p] = "done"
                           /\ Len(syncWarnings'[p]) = 1
                      ELSE syncWarnings'[p] = <<>>
             /\ \A dbOk \in BOOLEAN :
                   SyncUpsert(p, dbOk) =>
                      /\ syncPc'[p] = "done"
                      /\ IF dbOk /\ ~HasDuplicateIds(prepared[p].emailsToUpsert)
                         THEN syncWarnings'[p] = <<>>
                         ELSE Len(syncWarnings'[p]) = 1 /\ store' = store]_vars

\* A run of processEmailSync met an exception of the reconciliation and
\* returned it as its one warning, with nothing stored for its emails.
C25_Witness ==
    \E p \in SyncProcs :
        /\ syncKind[p] = "processor" /\ syncPc[p] = "done"
        /\ prepared[p].threw
        /\ syncWarnings[p] = <<"Unexpected sync error">>

(***************************************************************************)
(* Duration of the dispatch.                                               *)
(***************************************************************************)
CeilDiv(a, b) == (a + b - 1) \div b

\* C26: for a run of N batches with start rate R, the time between the start
\* of the dispatch and the start of the last batch is at least
\* ceil(N/R - 1) seconds; the same holds of the k-th start for each k.
C26_DispatchTakesAtLeast ==
    /\ \A k \in 1..Len(startTimes) :
          startTimes[k] - startTimes[1]
              >= WINDOW_MS * (CeilDiv(k, RATE_PER_SECOND) - 1)
    /\ RunReturned =>
          /\ Len(startTimes) = Len(emailChunks)
          /\ startTimes[1] = 0
          /\ startTimes[Len(emailChunks)]
                >= WINDOW_MS * (CeilDiv(Len(emailChunks), RATE_PER_SECOND) - 1)

\* A run of more than RATE_PER_SECOND batches returned: its last batch was
\* started in a later window than the first.
C26_Witness ==
    /\ RunReturned
    /\ Len(emailChunks) > RATE_PER_SECOND
    /\ startTimes[Len(emailChunks)] = WINDOW_MS + RATE_LIMIT_DELAY_BUFFER_MS

(***************************************************************************)
(* Independence of the tuning.                                             *)
(***************************************************************************)
\* The ids of the supplied buckets that have the given name.
IdsOfName(name) == {buckets[b].id : b \in {m \in 1..Len(buckets) : buckets[m].name = name}}

\* Every batch's answer, taken from the assignment, passes the validator.
EveryAnswerValid ==
    \A k \in 1..Len(emailChunks) :
        Validation(emailChunks[k], buckets, AssignedAnswer(emailChunks[k])).rule = "ok"

\* C27: the result does not depend on the batch size or the start rate: when
\* the model answers every batch with a valid response taken from one fixed
\* per-email assignment, the returned classifications are that assignment
\* on the input ids and errors is empty, for every batch size >= 1 and
\* every start rate >= 1.
C27_ResultIndependentOfTuning ==
    (RunReturned /\ DOMAIN assignment # {} /\ EveryAnswerValid) =>
        /\ response.errors = <<>>
        /\ DOMAIN response.classifications = Range(emails)
        /\ \A t \in Range(emails) : response.classifications[t] \in IdsOfName(assignment[t])

(***************************************************************************)
(* Reclassifying one bucket.                                               *)
(***************************************************************************)
\* One bucket is chosen in the dialog and it holds classified emails (5 in
\* the scenario, any number here).
SingleBucketChosen ==
    /\ Cardinality(selectedBucketIds) = 1
    /\ idsWhere(allFetchedEmails, InChosenBucket) # {}

InAnotherBucket(email) == email.bucket_id # Null /\ email.bucket_id \notin selectedBucketIds

CancellationReported(k) ==
    \E e \in 1..Len(response.errors) :
        /\ response.errors[e].batchThreadIds = emailChunks[k]
        /\ response.errors[e].error.kind = "cancelled"

\* C30: the run honours the caller's cancellation signal: once it is
\* triggered no further batch is started, and in the returned result every
\* batch that was not started or was abandoned is listed in errors with a
\* cancellation reason.
C30_CancellationStopsDispatch ==
    [][/\ cancelled => /\ startTimes' = startTimes
                       /\ modelCalls' = modelCalls
       /\ (cancelled /\ response' # response /\ response'.status = 200) =>
             \A k \in 1..Len(emailChunks) :
                (batchStatus[k] # "settled") => CancellationReported(k)']_vars

(***************************************************************************)
(* The failed fetch of a page load.                                        *)
(***************************************************************************)
FetchFailed(p) ==
    /\ syncKind[p] = "page"
    /\ Len(syncWarnings[p]) > 0
    /\ syncWarnings[p][1] = "Error fetching Gmail data"

\* C31: when the remote fetch of a page load fails, the sync step is
\* abandoned without any write to the stored emails: the failing step leaves
\* every stored row as it was, the run is over with the fetch failure as its
\* only (page) error, and it has selected nothing and prepared no upsert.
C31_FetchFailureWritesNothing ==
    [][\A p \in SyncProcs :
          /\ (~FetchFailed(p) /\ FetchFailed(p)') => store' = store
          /\ FetchFailed(p)' =>
                /\ syncPc'[p] = "done"
                /\ syncWarnings'[p] = <<"Error fetching Gmail data">>
                /\ gmail'[p] = <<>>
                /\ prepared'[p] = NoPrepared]_vars

\* A page load failed to fetch a non-empty inbox while a classified email
\* is stored.
C31_Witness ==
    \E p \in SyncProcs :
        /\ FetchFailed(p)
        /\ Len(inbox) > 0
        /\ \E t \in DOMAIN store : store[t].bucket_id = "b1"

(***************************************************************************)
(* The empty fetched list.                                                 *)
(***************************************************************************)
\* C32: an empty fetched list is not an error and causes no work:
\* processEmailSync, handed an empty list, returns at once with an empty
\* warning list, without having queried the stored ids and without a write
\* to the store; prepareSyncActions of an empty list returns three empty
\* outputs whatever ids are stored.
C32_EmptyFetchIsNoWork ==
    [][\A p \in SyncProcs :
          (syncPc[p] = "idle" /\ syncPc'[p] # "idle"
              /\ syncKind'[p] = "processor" /\ Len(inbox) = 0) =>
             /\ syncPc'[p] = "done"
             /\ syncWarnings'[p] = <<>>
             /\ existing'[p] = {} /\ prepared'[p] = NoPrepared
             /\ store' = store
             /\ prepareSyncActions(gmail'[p], DOMAIN store) = NoPrepared]_vars

\* processEmailSync has run on an empty list while an email is stored.
C32_Witness ==
    \E p \in SyncProcs :
        /\ syncKind[p] = "processor" /\ syncPc[p] = "done"
        /\ inbox = <<>> /\ gmail[p] = <<>>
        /\ DOMAIN store # {}

(***************************************************************************)
(* The returned classifications hold ids only.                             *)
(***************************************************************************)
\* The model outcomes of batch k that make processSingleBatch settle with
\* the value the batch has settled with.
AnswersOf(k) ==
    {raw \in RunOutcomes(emailChunks[k], buckets) :
        processSingleBatch(emailChunks[k], buckets, raw) = batchOut[k].value}

\* raw gives thread id t a bucket name that is the name of the supplied
\* bucket of id bucketId.
ReturnedFor(raw, t, bucketId) ==
    \E j \in 1..Len(raw.items) : \E b \in 1..Len(buckets) :
        /\ raw.items[j].isObject
        /\ raw.items[j].threadId = JSString(t)
        /\ raw.items[j].bucketName = JSString(buckets[b].name)
        /\ buckets[b].id = bucketId

\* C33: in every returned result, every key of classifications is a thread
\* id of the request and its value is the id of a supplied bucket whose name
\* is the one the model returned for that thread id: the entry comes from a
\* batch, and whatever answer the model gave that batch names the thread id
\* with the name of a supplied bucket of that id. No bucket name and no id
\* foreign to the request appears in classifications.
C33_ClassificationsHoldRequestIdsAndBucketIds ==
    RunReturned =>
        \A t \in DOMAIN response.classifications :
            /\ t \in Range(emails)
            /\ response.classifications[t] \in {buckets[b].id : b \in 1..Len(buckets)}
            /\ \E k \in 1..Len(emailChunks) :
                  /\ t \in Range(emailChunks[k])
                  /\ t \in DOMAIN batchOut[k].value.classifications
                  /\ batchOut[k].value.classifications[t] = response.classifications[t]
                  /\ AnswersOf(k) # {}
                  /\ \A raw \in AnswersOf(k) :
                        ReturnedFor(raw, t, response.classifications[t])

\* A result of two batches that classifies three thread ids into two
\* buckets.
C33_Witness ==
    /\ RunReturned
    /\ Len(emailChunks) = 2
    /\ Cardinality(DOMAIN response.classifications) = 3
    /\ {response.classifications[t] : t \in DOMAIN response.classifications}
          = {"b1", "b2"}

(***************************************************************************)
(* The failed query for the stored ids.                                    *)
(***************************************************************************)
SelectFailed(p) ==
    /\ Len(syncWarnings[p]) > 0
    /\ syncWarnings[p][1] = "Failed to fetch existing email IDs"

\* C34: if the query for the already-stored ids fails, processEmailSync
\* performs no upsert: the failing step writes no email record, the run is
\* over at once with that warning as its only warning, and it has prepared
\* no upsert.
C34_FailedSelectMeansNoUpsert ==
    [][\A p \in SyncProcs :
          (syncKind'[p] = "processor" /\ SelectFailed(p)') =>
             /\ ~SelectFailed(p) => store' = store
             /\ syncPc'[p] = "done"
             /\ syncWarnings'[p] = <<"Failed to fetch existing email IDs">>
             /\ prepared'[p] = NoPrepared]_vars

\* processEmailSync failed to query the stored ids for a fetched list that
\* holds an email that is not stored.
C34_Witness ==
    \E p \in SyncProcs :
        /\ syncKind[p] = "processor" /\ SelectFailed(p)
        /\ \E k \in 1..Len(gmail[p]) : gmail[p][k].threadId \notin DOMAIN store

(***************************************************************************)
(* Classified and failed thread ids of a request of distinct ids.          *)
(***************************************************************************)
DistinctIds ==
    \A j \in 1..Len(emails) : \A k \in 1..Len(emails) : j # k => emails[j] # emails[k]

ErrorsEntriesOf(k) ==
    {e \in 1..Len(response.errors) : response.errors[e].batchThreadIds = emailChunks[k]}

\* C35: for a request whose thread ids are pairwise distinct, no thread id
\* is both a key of the returned classifications and a member of the
\* batchThreadIds of an errors entry, and each failed batch contributes
\* exactly one errors entry (a batch that did not fail contributes none).
C35_ClassifiedAndFailedAreDisjoint ==
    (RunReturned /\ DistinctIds) =>
        /\ \A t \in DOMAIN response.classifications : ~ListedInErrors(t)
        /\ \A k \in 1..Len(emailChunks) :
              Cardinality(ErrorsEntriesOf(k)) = IF Failed(k) THEN 1 ELSE 0
        /\ Len(response.errors) = Cardinality({k \in 1..Len(emailChunks) : Failed(k)})

\* Three distinct thread ids in two batches: the batch of two failed, the
\* other one was classified.
C35_Witness ==
    /\ RunReturned /\ DistinctIds
    /\ Len(emailChunks) = 2
    /\ Failed(1) /\ ~Failed(2)
    /\ DOMAIN response.classifications = Range(emailChunks[2])

(***************************************************************************)
(* The sequential and the parallel route.                                  *)
(***************************************************************************)
BothReturned == pc = "done" /\ seqPc = "done"

ErrorBatches(errors) == [e \in 1..Len(errors) |-> errors[e].batchThreadIds]

\* Every element of every model answer is an object with a string threadId.
StringThreadIds ==
    \A k \in 1..Len(modelOutcomes) : \A j \in 1..Len(modelOutcomes[k].items) :
        /\ modelOutcomes[k].items[j].isObject
        /\ IsString(modelOutcomes[k].items[j].threadId)

\* C36 as stated: given the same emails, buckets, batch size and per-batch
\* model outcomes, the sequential route and the parallel route return the
\* same classifications map and the same errors list, in the same order.
C36_SequentialEqualsParallel ==
    BothReturned => seqResponse = response

\* C36 as amended: the two routes return the same status, the same
\* classifications map and errors entries for the same batches in the same
\* order; the reasons of the entries are the same as well when the request's
\* thread ids are pairwise distinct and every element of every model answer
\* has a string threadId.
C36_SequentialAgreesWithParallel ==
    BothReturned =>
        /\ seqResponse.status = response.status
        /\ seqResponse.classifications = response.classifications
        /\ ErrorBatches(seqResponse.errors) = ErrorBatches(response.errors)
        /\ (DistinctIds /\ StringThreadIds) => seqResponse.errors = response.errors

\* Both routes have returned a result of two batches, one classified and
\* one failed, for a request of distinct thread ids.
C36_Witness ==
    /\ BothReturned /\ DistinctIds /\ StringThreadIds
    /\ response.status = 200
    /\ Len(seqChunks) = 2
    /\ Len(seqResponse.errors) = 1
    /\ seqResponse.classifications # EmptyMap

(***************************************************************************)
(* The chain of automatic runs of InitialClassifier.                       *)
(***************************************************************************)
UnclassifiedStored == Cardinality({t \in DOMAIN store : store[t].bucket_id = Null})

\* The step in which a run of InitialClassifier calls router.refresh().
ICTriggersRefresh ==
    /\ icPc = "awaitUpsert" /\ icPc' = "done"
    /\ icStatus' # "Error during initial classification"

\* C37: the chain of automatic runs terminates when no new email arrives: a
\* run triggers a page refresh, and hence a further automatic run, only when
\* it has persisted at least one new classification, so that the number of
\* unclassified stored emails is strictly smaller after it and never grows
\* before the next run; a run with no successful classification triggers no
\* refresh.
C37_AutomaticRunsTerminate ==
    [][/\ UnclassifiedStored' <= UnclassifiedStored
       /\ ICTriggersRefresh =>
             /\ icRefresh'
             /\ UnclassifiedStored' < UnclassifiedStored
       /\ (icPc \in {"mount", "awaitApi", "awaitUpsert"} /\ icPc' = "done"
              /\ ~ICTriggersRefresh) => icRefresh' = icRefresh]_vars

(***************************************************************************)
(* prepareSyncActions as a split of the fetched list.                      *)
(***************************************************************************)
FetchedIds(p) == [k \in 1..Len(gmail[p]) |-> gmail[p][k].threadId]
UpsertIdList(p) ==
    [k \in 1..Len(prepared[p].emailsToUpsert) |-> prepared[p].emailsToUpsert[k].id]

\* C38: prepareSyncActions splits the fetched list without loss: the two
\* output lengths sum to the fetched length, emailsToUpsert holds the
\* entries whose id is not known and existingGmailThreadIdsInLatestFetch
\* those whose id is known, both in the order of the fetched list, and
\* allLatestGmailThreadIds lists every fetched thread id in order.
C38_PrepareSplitsWithoutLoss ==
    \A p \in SyncProcs :
        Reconciled(p) =>
            /\ Len(prepared[p].emailsToUpsert)
                  + Len(prepared[p].existingGmailThreadIdsInLatestFetch)
                  = Len(gmail[p])
            /\ UpsertIdList(p) =
                  SelectSeq(FetchedIds(p), LAMBDA t : t \notin existing[p])
            /\ prepared[p].existingGmailThreadIdsInLatestFetch =
                  SelectSeq(FetchedIds(p), LAMBDA t : t \in existing[p])
            /\ prepared[p].allLatestGmailThreadIds = FetchedIds(p)

(***************************************************************************)
(* The runs of the Classify dialog.                                        *)
(***************************************************************************)
DialogRunInFlight == dlgPc \in {"awaitApi", "awaitUpsert"}
DialogRequests == SelectSeq(apiRequests, LAMBDA r : r.from = "dialog")

\* C39: the Classify dialog never has two of its own runs in flight: a run
\* starts, and a request of the dialog is sent, only while isLoading is
\* false and no run is in flight; isLoading is true for the whole run; and
\* every exit of a run (API error, no classifications returned, upsert
\* error, success) leaves isLoading false, so that the Start button is no
\* longer disabled by it.
C39_DialogRunsOneAtATime ==
    [][/\ DialogRunInFlight' => isLoading'
       /\ (~DialogRunInFlight /\ DialogRunInFlight') => ~isLoading
       /\ DialogRequests' # DialogRequests =>
             /\ ~isLoading /\ ~DialogRunInFlight
             /\ DialogRunInFlight'
             /\ Len(DialogRequests') = Len(DialogRequests) + 1
       /\ (DialogRunInFlight /\ ~DialogRunInFlight') => ~isLoading']_vars

\* A second run of the dialog is in flight after its first run ended
\* without an update of the store.
C39_Witness ==
    /\ Len(DialogRequests) = 2
    /\ DialogRunInFlight /\ isLoading
    /\ \A t \in DOMAIN store : store[t].bucket_id = Null

\* C40: whenever the middleware answers a request, (a) a request without a
\* session for a path that starts with /inbox is redirected to /auth/login,
\* (b) a request with a session for /auth/login is redirected to /inbox,
\* both with the rest of the URL kept, and (c) a request that follows one of
\* its redirects under the session state the redirect was issued in is
\* passed through.  Requests the matcher excludes never reach the
\* middleware and are outside the statement.
MwAnswers == mwPc = "request" /\ mwPc' = "responded" /\ mwResponse'.kind # "bypass"
UnderInbox(pathname) ==
    \E n \in 0..Len(pathname) : SubSeq(pathname, 1, n) = InboxPath
RedirectedTo(pathname) ==
    /\ mwResponse'.kind = "redirect"
    /\ mwResponse'.url.pathname = pathname
    /\ mwResponse'.url.search = mwRequest.search
====
